---- MODULE Spec2Model ----
(***************************************************************************)
(* A model of flags-gen's parser (pkg/parser) and type table (pkg/types).  *)
(*                                                                         *)
(* Go strings that the code inspects character by character (identifiers, *)
(* struct-tag literals, default values, comment texts) are sequences of    *)
(* one-character strings.  Normalised type names, which the code only      *)
(* concatenates and compares, are TLA+ strings.                            *)
(***************************************************************************)
EXTENDS Integers, Sequences, FiniteSets, TLC

VARIABLES fileSet, call, done, written

vars == <<fileSet, call, done, written>>

\* The value of `call` before any operation has been invoked.
NoCall == [fn |-> "none"]

----------------------------------------------------------------------------
(* Bounds of the model.                                                    *)

\* Longest string handed to toKebabCase.
MaxLen == 5

\* Deepest nesting of the type expressions handed to parseType.
MaxTypeDepth == 2

\* Longest enumerated default string handed to parseDefaultValue.
MaxValueLen == 3

\* Most type specifications in one parenthesized type declaration.
MaxSpecs == 2

\* Most field declarations in one enumerated struct.
MaxFields == 2

\* Most identifiers one field declaration names.
MaxNames == 2

\* The most ParseFile calls made in one behaviour when parsers are reused.
MaxParses == 3

\* The most comments in the doc block of a field.
MaxDocLines == 2

----------------------------------------------------------------------------
(* Characters and strings.                                                 *)

UpperChars == <<"A","B","C","D","E","F","G","H","I","J","K","L","M",
                "N","O","P","Q","R","S","T","U","V","W","X","Y","Z">>

LowerChars == <<"a","b","c","d","e","f","g","h","i","j","k","l","m",
                "n","o","p","q","r","s","t","u","v","w","x","y","z">>

DigitChars == <<"0","1","2","3","4","5","6","7","8","9">>

Range(f) == {f[i] : i \in DOMAIN f}

UpperSet == Range(UpperChars)
LowerSet == Range(LowerChars)
DigitSet == Range(DigitChars)

\* The regexp class [A-Z].
IsUpper(c) == c \in UpperSet

\* The regexp class [a-z].
IsLower(c) == c \in LowerSet

IsDigit(c) == c \in DigitSet

\* unicode.ToLower on one ASCII character.
ToLowerChar(c) ==
    IF IsUpper(c)
    THEN LowerChars[CHOOSE i \in DOMAIN UpperChars : UpperChars[i] = c]
    ELSE c

\* strings.ToLower
ToLower(s) == [i \in DOMAIN s |-> ToLowerChar(s[i])]

\* All strings over alphabet `cs` of length at most n.
RECURSIVE StringsUpTo(_, _)
StringsUpTo(cs, n) ==
    IF n = 0 THEN {<<>>}
    ELSE LET shorter == StringsUpTo(cs, n - 1)
         IN  shorter \cup {Append(s, c) : s \in shorter, c \in cs}

\* s[from..] starts with `prefix` (strings.HasPrefix on the suffix at from).
HasPrefixAt(s, from, prefix) ==
    /\ from + Len(prefix) - 1 <= Len(s)
    /\ \A k \in 1..Len(prefix) : s[from + k - 1] = prefix[k]

\* strings.Contains
Contains(s, sub) == \E i \in 1..(Len(s) + 1) : HasPrefixAt(s, i, sub)

----------------------------------------------------------------------------
(* toKebabCase: two regexp replacements, then strings.ToLower.             *)

\* A match of ([A-Z]+)([A-Z][a-z]) starting at i: the length of group 1, the
\* longest that lets group 2 match (greedy with backtracking); 0 for no match.
Re1GroupLen(s, i) ==
    LET cand == {n \in 1..(Len(s) - i - 1) :
                    /\ \A k \in 0..(n - 1) : IsUpper(s[i + k])
                    /\ IsUpper(s[i + n])
                    /\ IsLower(s[i + n + 1])}
    IN  IF cand = {} THEN 0 ELSE CHOOSE n \in cand : \A m \in cand : m <= n

\* re1.ReplaceAllString(s, "${1}-${2}") from position i on: leftmost matches,
\* not overlapping.
RECURSIVE Re1Replace(_, _)
Re1Replace(s, i) ==
    IF i > Len(s) THEN <<>>
    ELSE LET n == Re1GroupLen(s, i)
         IN  IF n > 0
             THEN SubSeq(s, i, i + n - 1) \o <<"-">> \o SubSeq(s, i + n, i + n + 1)
                  \o Re1Replace(s, i + n + 2)
             ELSE <<s[i]>> \o Re1Replace(s, i + 1)

\* re2.ReplaceAllString(s, "${1}-${2}") with re2 = ([a-z])([A-Z]), from i on.
RECURSIVE Re2Replace(_, _)
Re2Replace(s, i) ==
    IF i > Len(s) THEN <<>>
    ELSE IF i < Len(s) /\ IsLower(s[i]) /\ IsUpper(s[i + 1])
         THEN <<s[i], "-", s[i + 1]>> \o Re2Replace(s, i + 2)
         ELSE <<s[i]>> \o Re2Replace(s, i + 1)

\* Faulty variant: the result is not lower-cased.
toKebabCaseKeepCase(s) == Re2Replace(Re1Replace(s, 1), 1)

\* Faulty variant: the acronym pass is left out.
toKebabCaseNoAcronym(s) == ToLower(Re2Replace(s, 1))

toKebabCase(s) == ToLower(Re2Replace(Re1Replace(s, 1), 1))

\* The alphabet of the strings toKebabCase is explored on.
KebabAlphabet == {"A", "B", "a", "b", "1", "-"}

ExProbeAddr == <<"P","r","o","b","e","A","d","d","r">>
ExEnableLeaderElection ==
    <<"E","n","a","b","l","e","L","e","a","d","e","r",
      "E","l","e","c","t","i","o","n">>
ExV == <<"V">>
ExHTTPPort == <<"H","T","T","P","P","o","r","t">>
ExXMLParser == <<"X","M","L","P","a","r","s","e","r">>

\* The cases of TestParser_toKebabCase.
KebabExamples == {ExProbeAddr, ExEnableLeaderElection, ExV, ExHTTPPort, ExXMLParser}

KebabInputs == StringsUpTo(KebabAlphabet, MaxLen) \cup KebabExamples

----------------------------------------------------------------------------
(* Specification of toKebabCase alone.                                     *)

InitFn ==
    /\ fileSet = <<>>
    /\ call = NoCall
    /\ done = <<>>
    /\ written = <<>>

CallToKebabCase ==
    /\ call = NoCall
    /\ \E s \in KebabInputs :
          call' = [fn |-> "toKebabCase", arg |-> s, ret |-> toKebabCase(s)]
    /\ UNCHANGED <<fileSet, done, written>>

NextKebab == CallToKebabCase

SpecKebab == InitFn /\ [][NextKebab]_vars

----------------------------------------------------------------------------
(* C6 *)

\* The claim's rule, position by position: a hyphen goes before s[i] when s[i]
\* is the last capital of a run of two or more capitals and a lower-case letter
\* follows it, or when s[i] is a capital right after a lower-case letter.
HyphenBefore(s, i) ==
    /\ i > 1
    /\ IsUpper(s[i])
    /\ \/ IsLower(s[i - 1])
       \/ IsUpper(s[i - 1]) /\ i < Len(s) /\ IsLower(s[i + 1])

RECURSIVE KebabByRule(_, _)
KebabByRule(s, i) ==
    IF i > Len(s) THEN <<>>
    ELSE (IF HyphenBefore(s, i) THEN <<"-">> ELSE <<>>)
         \o <<ToLowerChar(s[i])>> \o KebabByRule(s, i + 1)

KebabExpected(s) ==
    CASE s = ExProbeAddr -> <<"p","r","o","b","e","-","a","d","d","r">>
      [] s = ExEnableLeaderElection ->
            <<"e","n","a","b","l","e","-","l","e","a","d","e","r","-",
              "e","l","e","c","t","i","o","n">>
      [] s = ExV -> <<"v">>
      [] s = ExHTTPPort -> <<"h","t","t","p","-","p","o","r","t">>
      [] s = ExXMLParser -> <<"x","m","l","-","p","a","r","s","e","r">>

\* C6: toKebabCase(s) is s with a hyphen put inside each upper-case run before
\* its last capital when a lower-case letter follows, and between each
\* lower-case letter and the capital after it, all lower-cased; the five
\* documented examples come out as documented.
C6_KebabRule ==
    call.fn = "toKebabCase" =>
        /\ call.ret = KebabByRule(call.arg, 1)
        /\ call.arg \in KebabExamples => call.ret = KebabExpected(call.arg)

\* An acronym followed by a word has been converted.
C6_Witness ==
    /\ call.fn = "toKebabCase"
    /\ call.arg = ExHTTPPort
    /\ call.ret = <<"h","t","t","p","-","p","o","r","t">>

----------------------------------------------------------------------------
(* Type expressions (go/ast) and parseType.                                *)

Ident(n) == [node |-> "Ident", name |-> n]
SelectorExpr(x, sel) == [node |-> "SelectorExpr", x |-> x, sel |-> sel]
\* [len]elt when hasLen, []elt otherwise.
ArrayType(hasLen, elt) == [node |-> "ArrayType", hasLen |-> hasLen, elt |-> elt]
StarExpr(x) == [node |-> "StarExpr", x |-> x]
MapType(k, v) == [node |-> "MapType", key |-> k, value |-> v]
ParenExpr(x) == [node |-> "ParenExpr", x |-> x]
FuncType == [node |-> "FuncType"]
InterfaceType == [node |-> "InterfaceType"]
StructType(fields) == [node |-> "StructType", fields |-> fields]

NoErr == <<>>

\* errors.Is-style chain of one fmt.Errorf("...: %w") wrapping another.
Wrap(msg, arg, err) == <<msg, arg>> \o err

RECURSIVE parseType(_)
parseType(expr) ==
    CASE expr.node = "Ident" -> [s |-> expr.name, err |-> NoErr]
      [] expr.node = "SelectorExpr" ->
            LET pkg == parseType(expr.x)
            IN  IF pkg.err # NoErr THEN [s |-> "", err |-> pkg.err]
                ELSE [s |-> pkg.s \o "." \o expr.sel, err |-> NoErr]
      [] expr.node = "ArrayType" ->
            LET elemType == parseType(expr.elt)
            IN  IF elemType.err # NoErr THEN [s |-> "", err |-> elemType.err]
                ELSE [s |-> "[]" \o elemType.s, err |-> NoErr]
      [] OTHER -> [s |-> "", err |-> <<"unsupported type", "*ast." \o expr.node>>]

\* Type expressions without sub-expressions of their own (a qualified name's
\* left side is always a package identifier).
TypeLeaves ==
    {Ident(n) : n \in {"string", "int", "Custom"}}
    \cup {SelectorExpr(Ident("time"), "Duration")}
    \cup {FuncType, InterfaceType, StructType(<<>>)}

RECURSIVE TypeExprs(_)
TypeExprs(d) ==
    IF d = 0 THEN TypeLeaves
    ELSE LET sub == TypeExprs(d - 1)
         IN  sub
             \cup {ArrayType(l, e) : l \in BOOLEAN, e \in sub}
             \cup {StarExpr(e) : e \in sub}
             \cup {MapType(Ident("string"), e) : e \in sub}
             \cup {ParenExpr(e) : e \in sub}

CallParseType ==
    /\ call = NoCall
    /\ \E e \in TypeExprs(MaxTypeDepth) :
          call' = [fn |-> "parseType", arg |-> e, ret |-> parseType(e)]
    /\ UNCHANGED <<fileSet, done, written>>

NextType == CallParseType

SpecType == InitFn /\ [][NextType]_vars

----------------------------------------------------------------------------
(* C5 *)

IsName(e) ==
    \/ e.node = "Ident"
    \/ e.node = "SelectorExpr" /\ e.x.node = "Ident"

\* The claim's grammar: named type | qualified name | one level of sequence
\* over one of those.
InClosedGrammar(e) ==
    \/ IsName(e)
    \/ e.node = "ArrayType" /\ ~e.hasLen /\ IsName(e.elt)

NameText(e) ==
    IF e.node = "Ident" THEN e.name ELSE e.x.name \o "." \o e.sel

\* C5 (as claimed): parseType succeeds exactly on the closed grammar, returning
\* T, pkg.T or []T, and every other shape, a sequence of a sequence included,
\* yields an unsupported-type error.
C5_ClosedGrammar ==
    call.fn = "parseType" =>
        IF InClosedGrammar(call.arg)
        THEN /\ call.ret.err = NoErr
             /\ call.ret.s = IF IsName(call.arg) THEN NameText(call.arg)
                             ELSE "[]" \o NameText(call.arg.elt)
        ELSE /\ call.ret.err # NoErr
             /\ call.ret.err[1] = "unsupported type"

----------------------------------------------------------------------------
(* Default values: strconv.Atoi, strconv.ParseBool, strings.Split and      *)
(* parseDefaultValue.  A value of interface{} type carries its dynamic     *)
(* type in `kind`.                                                         *)

NilValue == [kind |-> "nil"]
StringValue(s) == [kind |-> "string", v |-> s]
IntValue(n) == [kind |-> "int", v |-> n]
BoolValue(b) == [kind |-> "bool", v |-> b]
StringSliceValue(l) == [kind |-> "[]string", v |-> l]

DigitOf(c) == (CHOOSE i \in DOMAIN DigitChars : DigitChars[i] = c) - 1

RECURSIVE StripZeros(_)
StripZeros(ds) ==
    IF Len(ds) > 1 /\ ds[1] = "0" THEN StripZeros(Tail(ds)) ELSE ds

\* The decimal digits of 1<<63 - 1, the largest int on a 64-bit platform.
MaxIntDigits == <<"9","2","2","3","3","7","2","0","3","6",
                  "8","5","4","7","7","5","8","0","7">>

\* The decimal digits of 1<<63, the magnitude of the smallest int.
MinIntDigits == <<"9","2","2","3","3","7","2","0","3","6",
                  "8","5","4","7","7","5","8","0","8">>

\* Digit strings of equal length: a > b.
RECURSIVE DigitsGreater(_, _)
DigitsGreater(a, b) ==
    IF a = <<>> THEN FALSE
    ELSE IF a[1] # b[1] THEN DigitOf(a[1]) > DigitOf(b[1])
         ELSE DigitsGreater(Tail(a), Tail(b))

\* strconv's range error: the magnitude does not fit in a 64-bit int.
OutOfIntRange(neg, ds) ==
    LET n == StripZeros(ds)
        cutoff == IF neg THEN MinIntDigits ELSE MaxIntDigits
    IN  \/ Len(n) > Len(cutoff)
        \/ Len(n) = Len(cutoff) /\ DigitsGreater(n, cutoff)

RECURSIVE DigitsValue(_, _)
DigitsValue(ds, acc) ==
    IF ds = <<>> THEN acc ELSE DigitsValue(Tail(ds), acc * 10 + DigitOf(ds[1]))

\* strconv.Atoi: an optional sign, then one or more decimal digits.
Atoi(s) ==
    LET signed == s # <<>> /\ s[1] \in {"+", "-"}
        neg == signed /\ s[1] = "-"
        ds == IF signed THEN Tail(s) ELSE s
    IN  IF ds = <<>> \/ \E i \in DOMAIN ds : ~IsDigit(ds[i])
        THEN [ok |-> FALSE, v |-> 0]
        ELSE IF OutOfIntRange(neg, ds)
             THEN [ok |-> FALSE, v |-> 0]
             ELSE [ok |-> TRUE,
                   v |-> IF neg THEN 0 - DigitsValue(ds, 0) ELSE DigitsValue(ds, 0)]

TrueSpellings ==
    {<<"1">>, <<"t">>, <<"T">>, <<"T","R","U","E">>, <<"t","r","u","e">>,
     <<"T","r","u","e">>}

FalseSpellings ==
    {<<"0">>, <<"f">>, <<"F">>, <<"F","A","L","S","E">>, <<"f","a","l","s","e">>,
     <<"F","a","l","s","e">>}

\* strconv.ParseBool
ParseBool(s) ==
    IF s \in TrueSpellings THEN [ok |-> TRUE, v |-> TRUE]
    ELSE IF s \in FalseSpellings THEN [ok |-> TRUE, v |-> FALSE]
         ELSE [ok |-> FALSE, v |-> FALSE]

\* strings.Split(s, sep) for a one-character separator: the segments between
\* separators, from position i on, `cur` being the segment read so far.
RECURSIVE SplitFrom(_, _, _, _)
SplitFrom(s, sep, i, cur) ==
    IF i > Len(s) THEN <<cur>>
    ELSE IF s[i] = sep THEN <<cur>> \o SplitFrom(s, sep, i + 1, <<>>)
         ELSE SplitFrom(s, sep, i + 1, Append(cur, s[i]))

Split(s, sep) == SplitFrom(s, sep, 1, <<>>)

\* strings.Join
RECURSIVE Join(_, _)
Join(l, sep) ==
    IF l = <<>> THEN <<>>
    ELSE IF Len(l) = 1 THEN l[1]
         ELSE l[1] \o <<sep>> \o Join(Tail(l), sep)

\* Faulty variant: the int32 and int64 cases and the empty-list guard are missing.
parseDefaultValueLax(value, fieldType) ==
    CASE fieldType = "string" -> StringValue(value)
      [] fieldType = "int" ->
            IF Atoi(value).ok THEN IntValue(Atoi(value).v) ELSE StringValue(value)
      [] fieldType = "bool" ->
            IF ParseBool(value).ok THEN BoolValue(ParseBool(value).v)
            ELSE StringValue(value)
      [] fieldType = "[]string" -> StringSliceValue(Split(value, ","))
      [] OTHER -> StringValue(value)

parseDefaultValue(value, fieldType) ==
    CASE fieldType = "string" -> StringValue(value)
      [] fieldType \in {"int", "int32", "int64"} ->
            IF Atoi(value).ok THEN IntValue(Atoi(value).v) ELSE StringValue(value)
      [] fieldType = "bool" ->
            IF ParseBool(value).ok THEN BoolValue(ParseBool(value).v)
            ELSE StringValue(value)
      [] fieldType = "[]string" ->
            IF value # <<>> THEN StringSliceValue(Split(value, ","))
            ELSE StringSliceValue(<<>>)
      [] fieldType = "time.Duration" -> StringValue(value)
      [] OTHER -> StringValue(value)

\* The alphabet of the enumerated default strings.
ValueAlphabet == {"0", "1", "-", ",", "t", "x"}

ExHello == <<"h","e","l","l","o">>
Ex42 == <<"4","2">>
ExTrue == <<"t","r","u","e">>
ExFalse == <<"f","a","l","s","e">>
ExWebApi == <<"w","e","b",",","a","p","i">>
Ex30s == <<"3","0","s">>
\* 20 nines: a decimal integer that no 64-bit int holds.
ExHuge == [i \in 1..20 |-> "9"]

\* The cases of TestParser_parseDefaultValue, every spelling ParseBool knows,
\* signed and oversized integers.
ValueExamples ==
    {ExHello, Ex42, ExTrue, ExFalse, ExWebApi, Ex30s, ExHuge, <<"+","4","2">>,
     <<"-","0","4","2">>, <<"8","0","8","0">>}
    \cup TrueSpellings \cup FalseSpellings

ValueInputs == StringsUpTo(ValueAlphabet, MaxValueLen) \cup ValueExamples

\* Normalised type names handed to parseDefaultValue: the keys of
\* SupportedTypes that it treats, some it does not, and names outside the table.
DefaultTypes ==
    {"string", "int", "int32", "int64", "bool", "[]string", "time.Duration",
     "uint", "float64", "[]int", "Custom", "[][]string"}

CallParseDefaultValue ==
    /\ call = NoCall
    /\ \E value \in ValueInputs, fieldType \in DefaultTypes :
          call' = [fn |-> "parseDefaultValue",
                   arg |-> [value |-> value, fieldType |-> fieldType],
                   ret |-> parseDefaultValue(value, fieldType)]
    /\ UNCHANGED <<fileSet, done, written>>

NextDefault == CallParseDefaultValue

SpecDefault == InitFn /\ [][NextDefault]_vars

----------------------------------------------------------------------------
(* C8 *)

\* The decimal text of a natural number.
RECURSIVE Itoa(_)
Itoa(n) ==
    IF n < 10 THEN <<DigitChars[n + 1]>>
    ELSE Append(Itoa(n \div 10), DigitChars[(n % 10) + 1])

\* A base-10 integer in text: an optional sign and at least one digit, of a
\* magnitude an int holds (at most 19 significant digits here).
IsDecimalInteger(s) ==
    LET ds == IF s # <<>> /\ s[1] \in {"+", "-"} THEN Tail(s) ELSE s
    IN  /\ ds # <<>>
        /\ \A i \in DOMAIN ds : IsDigit(ds[i])
        /\ Len(StripZeros(ds)) < Len(MaxIntDigits)

\* n is the integer that text s denotes: s is n's decimal text up to a plus
\* sign and leading zeros.
Denotes(s, n) ==
    LET neg == s[1] = "-"
        ds == IF s[1] \in {"+", "-"} THEN Tail(s) ELSE s
    IN  /\ StripZeros(ds) = Itoa(IF n < 0 THEN 0 - n ELSE n)
        /\ n < 0 => neg
        /\ n > 0 => ~neg

\* C8: parseDefaultValue types the raw string by the field's type: a string
\* stays itself, a base-10 integer on int, int32 and int64 becomes that
\* integer, a boolean spelling on bool becomes that boolean, and
\* time.Duration and every type without a case keep the raw string.
C8_TypedDefault ==
    call.fn = "parseDefaultValue" =>
        LET value == call.arg.value
            fieldType == call.arg.fieldType
        IN  /\ fieldType = "string" => call.ret = StringValue(value)
            /\ fieldType \in {"int", "int32", "int64"} /\ IsDecimalInteger(value) =>
                  call.ret.kind = "int" /\ Denotes(value, call.ret.v)
            /\ fieldType = "bool" /\ value \in {ExTrue, <<"T","r","u","e">>, <<"T","R","U","E">>,
                                            <<"t">>, <<"T">>, <<"1">>} =>
                  call.ret = BoolValue(TRUE)
            /\ fieldType = "bool" /\ value \in {ExFalse, <<"F","a","l","s","e">>, <<"F","A","L","S","E">>,
                                            <<"f">>, <<"F">>, <<"0">>} =>
                  call.ret = BoolValue(FALSE)
            /\ fieldType \notin {"string", "int", "int32", "int64", "bool", "[]string"} =>
                  call.ret = StringValue(value)

\* A signed integer with a leading zero has been typed on an int64 field.
C8_Witness ==
    /\ call.fn = "parseDefaultValue"
    /\ call.arg = [value |-> <<"-","0","4","2">>, fieldType |-> "int64"]
    /\ call.ret = IntValue(0 - 42)

----------------------------------------------------------------------------
(* C10 *)

\* C10: on a []string field a non-empty default becomes the list of its
\* comma-separated segments in order (joining them with commas gives the
\* default back and no segment holds a comma), and the empty default becomes
\* the empty list.
C10_StringList ==
    call.fn = "parseDefaultValue" /\ call.arg.fieldType = "[]string" =>
        /\ call.ret.kind = "[]string"
        /\ IF call.arg.value = <<>>
           THEN call.ret.v = <<>>
           ELSE /\ call.ret.v # <<>>
                /\ Join(call.ret.v, ",") = call.arg.value
                /\ \A k \in DOMAIN call.ret.v : ~Contains(call.ret.v[k], <<",">>)
        /\ call.arg.value = ExWebApi =>
              call.ret.v = << <<"w","e","b">>, <<"a","p","i">> >>

\* The empty default has been given on a []string field.
C10_Witness ==
    /\ call.fn = "parseDefaultValue"
    /\ call.arg = [value |-> <<>>, fieldType |-> "[]string"]
    /\ call.ret = StringSliceValue(<<>>)

----------------------------------------------------------------------------
(* pkg/types: the supported-type table.                                    *)

\* Faulty variant: the three unsigned kinds share one method and integer
\* lists are missing.
SupportedTypesShort ==
    [t \in {"string", "int", "int32", "int64", "uint", "uint32", "uint64",
            "bool", "float32", "float64", "[]string", "time.Duration"} |->
        CASE t = "string" -> "StringVar"
          [] t = "int" -> "IntVar"
          [] t = "int32" -> "Int32Var"
          [] t = "int64" -> "Int64Var"
          [] t \in {"uint", "uint32", "uint64"} -> "UintVar"
          [] t = "bool" -> "BoolVar"
          [] t = "float32" -> "Float32Var"
          [] t = "float64" -> "Float64Var"
          [] t = "[]string" -> "StringSliceVar"
          [] t = "time.Duration" -> "DurationVar"]

SupportedTypes ==
    [t \in {"string", "int", "int32", "int64", "uint", "uint32", "uint64",
            "bool", "float32", "float64", "[]string", "[]int", "time.Duration"} |->
        CASE t = "string" -> "StringVar"
          [] t = "int" -> "IntVar"
          [] t = "int32" -> "Int32Var"
          [] t = "int64" -> "Int64Var"
          [] t = "uint" -> "UintVar"
          [] t = "uint32" -> "Uint32Var"
          [] t = "uint64" -> "Uint64Var"
          [] t = "bool" -> "BoolVar"
          [] t = "float32" -> "Float32Var"
          [] t = "float64" -> "Float64Var"
          [] t = "[]string" -> "StringSliceVar"
          [] t = "[]int" -> "IntSliceVar"
          [] t = "time.Duration" -> "DurationVar"]

GetFlagMethod(fieldType) ==
    IF fieldType \in DOMAIN SupportedTypes
    THEN [method |-> SupportedTypes[fieldType], exists |-> TRUE]
    ELSE [method |-> "", exists |-> FALSE]

\* Type strings handed to GetFlagMethod: the keys of the table and names
\* near them, plain, as sequences, as pointers and qualified.
TypeNameBases ==
    {"string", "int", "int32", "int64", "uint", "uint32", "uint64", "bool",
     "float32", "float64", "Duration", "unsupported", "Custom", "String", "INT",
     "int8", "int16", "uint8", "byte", "float", "error", ""}

TypeNames ==
    {prefix \o base : prefix \in {"", "[]", "[][]", "*", "time.", "pkg."},
                      base \in TypeNameBases}

CallGetFlagMethod ==
    /\ call = NoCall
    /\ \E fieldType \in TypeNames :
          call' = [fn |-> "GetFlagMethod", arg |-> fieldType,
                   ret |-> GetFlagMethod(fieldType)]
    /\ UNCHANGED <<fileSet, done, written>>

NextFlagMethod == CallGetFlagMethod

SpecFlagMethod == InitFn /\ [][NextFlagMethod]_vars

----------------------------------------------------------------------------
(* Struct tags.  A tag is written as key:"value" entries in a raw or an     *)
(* interpreted string literal; go/parser hands the parser the literal as    *)
(* written, delimiters and escapes included.                               *)

NoTag == [written |-> FALSE]
Tag(raw, entries) == [written |-> TRUE, raw |-> raw, entries |-> entries]
Entry(k, v) == [key |-> k, val |-> v]

Quote == "\""
Backslash == "\\"
\* The grave accent that delimits a raw string literal (the character itself
\* cannot be written in a string of this module).
Backtick == "GRAVE"

KeyJSON == <<"j","s","o","n">>
KeyDefault == <<"d","e","f","a","u","l","t">>

\* The text of the tag: its entries, separated by one space.
RECURSIVE TagText(_)
TagText(entries) ==
    IF entries = <<>> THEN <<>>
    ELSE entries[1].key \o <<":", Quote>> \o entries[1].val \o <<Quote>>
         \o (IF Len(entries) > 1 THEN <<" ">> ELSE <<>>)
         \o TagText(Tail(entries))

\* The text as it stands inside an interpreted string literal.
RECURSIVE Escaped(_)
Escaped(s) ==
    IF s = <<>> THEN <<>>
    ELSE (IF s[1] \in {Quote, Backslash} THEN <<Backslash, s[1]>> ELSE <<s[1]>>)
         \o Escaped(Tail(s))

\* ast.BasicLit.Value of the field's tag.
TagLiteral(tag) ==
    IF tag.raw THEN <<Backtick>> \o TagText(tag.entries) \o <<Backtick>>
    ELSE <<Quote>> \o Escaped(TagText(tag.entries)) \o <<Quote>>

\* strings.Trim(s, cutset) for a one-character cutset.
RECURSIVE TrimLeftChar(_, _)
TrimLeftChar(s, c) ==
    IF s # <<>> /\ s[1] = c THEN TrimLeftChar(Tail(s), c) ELSE s

RECURSIVE TrimRightChar(_, _)
TrimRightChar(s, c) ==
    IF s # <<>> /\ s[Len(s)] = c THEN TrimRightChar(SubSeq(s, 1, Len(s) - 1), c)
    ELSE s

Trim(s, c) == TrimRightChar(TrimLeftChar(s, c), c)

\* The first position at or after `from` that holds character c; 0 if none.
RECURSIVE IndexFrom(_, _, _)
IndexFrom(s, c, from) ==
    IF from > Len(s) THEN 0
    ELSE IF s[from] = c THEN from ELSE IndexFrom(s, c, from + 1)

\* regexp key:"([^"]*)" .FindStringSubmatch(tag): the leftmost place where the
\* text key:" occurs with a closing quote after it; group 1 runs to the first
\* such quote.  The pattern is not anchored to the start of an entry.
RECURSIVE FindSubmatchFrom(_, _, _)
FindSubmatchFrom(tag, key, i) ==
    LET open == key \o <<":", Quote>>
    IN  IF i + Len(open) - 1 > Len(tag) THEN [found |-> FALSE, group |-> <<>>]
        ELSE IF HasPrefixAt(tag, i, open)
                /\ IndexFrom(tag, Quote, i + Len(open)) # 0
             THEN [found |-> TRUE,
                   group |-> SubSeq(tag, i + Len(open),
                                    IndexFrom(tag, Quote, i + Len(open)) - 1)]
             ELSE FindSubmatchFrom(tag, key, i + 1)

FindStringSubmatch(tag, key) == FindSubmatchFrom(tag, key, 1)

extractJSONTag(tag) ==
    LET m == FindStringSubmatch(tag, KeyJSON)
    IN  IF m.found
        THEN LET parts == Split(m.group, ",")
             IN  IF parts[1] # <<>> THEN parts[1] ELSE <<>>
        ELSE <<>>

extractDefaultFromTag(tag, fieldType) ==
    LET m == FindStringSubmatch(tag, KeyDefault)
    IN  IF m.found THEN parseDefaultValue(m.group, fieldType) ELSE NilValue

deriveFlagName(fieldName, jsonTag) ==
    IF jsonTag # <<>> THEN toKebabCase(jsonTag) ELSE toKebabCase(fieldName)

----------------------------------------------------------------------------
(* Comments.  A comment group is NoDoc (a nil *ast.CommentGroup) or the    *)
(* sequence of its comments' texts, comment markers included.              *)

NoDoc == [present |-> FALSE]
Doc(list) == [present |-> TRUE, list |-> list]

Marker == <<"+","f","l","a","g","s","-","g","e","n">>

hasAnnotation(commentGroup) ==
    IF ~commentGroup.present THEN FALSE
    ELSE \E k \in DOMAIN commentGroup.list : Contains(commentGroup.list[k], Marker)

\* strings.HasPrefix
HasPrefix(s, prefix) == HasPrefixAt(s, 1, prefix)

\* strings.TrimPrefix
TrimPrefix(s, prefix) ==
    IF HasPrefix(s, prefix) THEN SubSeq(s, Len(prefix) + 1, Len(s)) ELSE s

\* strings.TrimSuffix
TrimSuffix(s, suffix) ==
    IF Len(suffix) <= Len(s) /\ HasPrefixAt(s, Len(s) - Len(suffix) + 1, suffix)
    THEN SubSeq(s, 1, Len(s) - Len(suffix))
    ELSE s

\* The characters of white space that have no one-character spelling here:
\* vertical tab (U+000B), next line (U+0085), no-break space (U+00A0).
VerticalTab == "VT"
NextLine == "NEL"
NoBreakSpace == "NBSP"

\* unicode.IsSpace, on the characters the model writes.
IsSpace(c) == c \in {" ", "\t", "\n", "\r", "\f", VerticalTab, NextLine, NoBreakSpace}

\* strings.TrimSpace
RECURSIVE TrimSpace(_)
TrimSpace(s) ==
    IF s # <<>> /\ IsSpace(s[1]) THEN TrimSpace(Tail(s))
    ELSE IF s # <<>> /\ IsSpace(s[Len(s)]) THEN TrimSpace(SubSeq(s, 1, Len(s) - 1))
         ELSE s

\* The loop over doc.List of parseFieldComment, from comment k on.
RECURSIVE DocDescription(_, _, _)
DocDescription(list, k, description) ==
    IF k > Len(list) THEN description
    ELSE LET text == TrimSpace(TrimSuffix(TrimPrefix(TrimPrefix(list[k],
                         <<"/","/">>), <<"/","*">>), <<"*","/">>))
         IN  IF HasPrefix(text, <<"+">>)
             THEN DocDescription(list, k + 1, description)
             ELSE IF description = <<>>
                  THEN DocDescription(list, k + 1, text)
                  ELSE DocDescription(list, k + 1, description \o <<" ">> \o text)

parseFieldComment(comment, doc) ==
    LET description == IF doc.present THEN DocDescription(doc.list, 1, <<>>) ELSE <<>>
    IN  IF description = <<>> /\ comment.present /\ comment.list # <<>>
        THEN TrimSpace(TrimPrefix(comment.list[1], <<"/","/">>))
        ELSE description

----------------------------------------------------------------------------
(* Default value literals.                                                 *)

getZeroValue(fieldType) ==
    CASE fieldType = "string" -> <<Quote, Quote>>
      [] fieldType \in {"int", "int32", "int64", "uint", "uint32", "uint64",
                        "float32", "float64"} -> <<"0">>
      [] fieldType = "bool" -> <<"f","a","l","s","e">>
      [] fieldType = "[]string" -> <<"[","]","s","t","r","i","n","g","{","}">>
      [] fieldType = "[]int" -> <<"[","]","i","n","t","{","}">>
      [] fieldType = "time.Duration" -> <<"0">>
      [] OTHER -> <<Quote, Quote>>

\* fmt's %v (and %s of a string) of a default value.
Sprint(value) ==
    CASE value.kind = "string" -> value.v
      [] value.kind = "int" ->
            IF value.v < 0 THEN <<"-">> \o Itoa(0 - value.v) ELSE Itoa(value.v)
      [] value.kind = "bool" ->
            IF value.v THEN <<"t","r","u","e">> ELSE <<"f","a","l","s","e">>

RECURSIVE JoinQuoted(_)
JoinQuoted(slice) ==
    IF slice = <<>> THEN <<>>
    ELSE <<Quote>> \o slice[1] \o <<Quote>>
         \o (IF Len(slice) > 1 THEN <<",", " ">> ELSE <<>>)
         \o JoinQuoted(Tail(slice))

\* Faulty variant: the literal is always the zero value of the type.
formatDefaultValueCodeZero(value, fieldType) == getZeroValue(fieldType)

formatDefaultValueCode(value, fieldType) ==
    IF value = NilValue THEN getZeroValue(fieldType)
    ELSE CASE fieldType = "string" -> <<Quote>> \o Sprint(value) \o <<Quote>>
           [] fieldType = "[]string" ->
                 IF value.kind = "[]string"
                 THEN <<"[","]","s","t","r","i","n","g","{">> \o JoinQuoted(value.v)
                      \o <<"}">>
                 ELSE <<"[","]","s","t","r","i","n","g","{","}">>
           [] fieldType = "time.Duration" ->
                 IF value.kind = "string"
                 THEN TrimSuffix(value.v, <<"s">>)
                      \o <<"*","t","i","m","e",".","S","e","c","o","n","d">>
                 ELSE <<"0">>
           [] OTHER -> Sprint(value)

----------------------------------------------------------------------------
(* Fields, structs and files (go/ast), and the parser proper.              *)

Field(names, type, tag, doc, comment) ==
    [names |-> names, type |-> type, tag |-> tag, doc |-> doc, comment |-> comment]

\* A type specification; assign tells an alias declaration (type A = B) from
\* a type definition.
TypeSpec(name, doc, type) == [kind |-> "TypeSpec", name |-> name, doc |-> doc,
                              type |-> type, assign |-> FALSE]

AliasSpec(name, doc, type) == [TypeSpec(name, doc, type) EXCEPT !.assign = TRUE]

\* A general declaration; lparen tells a parenthesized group from a single
\* declaration.
GenDecl(tok, lparen, doc, specs) ==
    [kind |-> "GenDecl", tok |-> tok, lparen |-> lparen, doc |-> doc, specs |-> specs]

FuncDecl == [kind |-> "FuncDecl"]

\* ast.IsExported
IsExported(name) == name # <<>> /\ IsUpper(name[1])

parseField(name, field) ==
    LET t == parseType(field.type)
        tag == IF field.tag.written THEN Trim(TagLiteral(field.tag), Backtick)
               ELSE <<>>
        jsonTag == IF field.tag.written THEN extractJSONTag(tag) ELSE <<>>
    IN  IF t.err # NoErr
        THEN [err |-> Wrap("failed to parse type for field", name, t.err)]
        ELSE [err |-> NoErr,
              info |-> [Name |-> name,
                        Type |-> t.s,
                        JSONTag |-> jsonTag,
                        FlagName |-> deriveFlagName(name, jsonTag),
                        Description |-> parseFieldComment(field.comment, field.doc),
                        DefaultValue |-> IF field.tag.written
                                         THEN extractDefaultFromTag(tag, t.s)
                                         ELSE NilValue,
                        DefaultValueCode |-> <<>>,
                        Required |-> FALSE,
                        ShortFlag |-> <<>>,
                        FlagMethod |-> ""]]

\* Faulty variant: the default literal is filled in for every type.
WithFlagMethodAlways(fieldInfo) ==
    [fieldInfo EXCEPT
        !.FlagMethod = GetFlagMethod(fieldInfo.Type).method,
        !.DefaultValueCode = formatDefaultValueCode(fieldInfo.DefaultValue, fieldInfo.Type)]

\* The body of parseStruct's inner loop for one parsed field: the flag method
\* and the default literal are filled in for supported types.
WithFlagMethod(fieldInfo) ==
    IF GetFlagMethod(fieldInfo.Type).exists
    THEN [fieldInfo EXCEPT
            !.FlagMethod = GetFlagMethod(fieldInfo.Type).method,
            !.DefaultValueCode =
                formatDefaultValueCode(fieldInfo.DefaultValue, fieldInfo.Type)]
    ELSE fieldInfo

\* Faulty variant: unexported names are parsed like exported ones.
SkipsNameNever(name) == FALSE

\* parseStruct's test on one name of a field.
SkipsName(name) == ~IsExported(name)

\* Faulty variant: only the first identifier of a field declaration is read.
FieldNamesFirstOnly(field) ==
    IF field.names = <<>> THEN <<>> ELSE <<field.names[1]>>

\* The identifiers parseStruct's inner loop ranges over.
FieldNames(field) == field.names

\* parseStruct's two loops, from name n of field f on; `fields` holds the
\* FieldInfo appended so far.  An embedded field has no names, so its inner
\* loop does nothing.
RECURSIVE ParseFieldsFrom(_, _, _, _)
ParseFieldsFrom(list, f, n, fields) ==
    IF f > Len(list) THEN [err |-> NoErr, fields |-> fields]
    ELSE IF n > Len(FieldNames(list[f])) THEN ParseFieldsFrom(list, f + 1, 1, fields)
    ELSE IF SkipsName(FieldNames(list[f])[n])
         THEN ParseFieldsFrom(list, f, n + 1, fields)
    ELSE LET r == parseField(FieldNames(list[f])[n], list[f])
         IN  IF r.err # NoErr
             THEN [err |-> Wrap("failed to parse field", FieldNames(list[f])[n], r.err),
                   fields |-> fields]
             ELSE ParseFieldsFrom(list, f, n + 1,
                                  Append(fields, WithFlagMethod(r.info)))

\* Faulty variant: a second import, for string lists, joins the map.
importsWithStrings(fields) ==
    {"time" : k \in {j \in DOMAIN fields : fields[j].Type = "time.Duration"}}
    \cup {"strings" : k \in {j \in DOMAIN fields : fields[j].Type = "[]string"}}

\* The keys of parseStruct's map `imports` once the fields are parsed.
imports(fields) ==
    {"time" : k \in {j \in DOMAIN fields : fields[j].Type = "time.Duration"}}

\* The orders in which a range over a map with these keys may visit them: Go
\* leaves the iteration order of a map unspecified.
RECURSIVE RangeOrders(_)
RangeOrders(keys) ==
    IF keys = {} THEN {<<>>}
    ELSE UNION {{<<k>> \o rest : rest \in RangeOrders(keys \ {k})} : k \in keys}

\* The outcomes of parseStruct: one for each order in which the map of
\* imports may be turned into the slice Imports.
parseStruct(name, structType, packageName) ==
    LET r == ParseFieldsFrom(structType.fields, 1, 1, <<>>)
    IN  IF r.err # NoErr THEN {[err |-> r.err]}
        ELSE {[err |-> NoErr,
               info |-> [Name |-> name,
                         PackageName |-> packageName,
                         Fields |-> r.fields,
                         Imports |-> order]] :
                order \in RangeOrders(imports(r.fields))}

\* The comment group ParseFile hands to hasAnnotation for a type specification.
AnnotationDoc(genDecl, typeSpec) == genDecl.doc

\* ParseFile's two loops, from specification s of declaration d on; `structs`
\* holds the descriptors appended so far.  The value is the set of outcomes.
RECURSIVE ParseDeclsFrom(_, _, _, _)
ParseDeclsFrom(src, d, s, structs) ==
    IF d > Len(src.decls) THEN {[structs |-> structs, err |-> NoErr]}
    ELSE IF ~(src.decls[d].kind = "GenDecl" /\ src.decls[d].tok = "type")
         THEN ParseDeclsFrom(src, d + 1, 1, structs)
    ELSE IF s > Len(src.decls[d].specs) THEN ParseDeclsFrom(src, d + 1, 1, structs)
    ELSE LET genDecl == src.decls[d]
             typeSpec == genDecl.specs[s]
         IN  IF /\ typeSpec.kind = "TypeSpec"
                /\ typeSpec.type.node = "StructType"
                /\ hasAnnotation(AnnotationDoc(genDecl, typeSpec))
             THEN UNION {IF r.err # NoErr
                         THEN {[structs |-> <<>>,
                                err |-> Wrap("failed to parse struct",
                                             typeSpec.name, r.err)]}
                         ELSE ParseDeclsFrom(src, d, s + 1, Append(structs, r.info)) :
                            r \in parseStruct(typeSpec.name, typeSpec.type, src.pkg)}
             ELSE ParseDeclsFrom(src, d, s + 1, structs)

\* The outcomes of Parser.ParseFile on the file named filename, whose text
\* go/parser either rejects (syntaxOK false) or turns into the tree src.
ParseFileResult(file) ==
    IF ~file.syntaxOK
    THEN {[structs |-> <<>>, err |-> <<"failed to parse file", file.name>>]}
    ELSE ParseDeclsFrom(file, 1, 1, <<>>)

----------------------------------------------------------------------------
(* cmd/flags-gen: file paths (path/filepath on a system whose separator is  *)
(* the slash).                                                             *)

\* os.Getwd: the working directory of the process, or an error when it
\* cannot be told (the directory was removed under the process).
Getwd ==
    {[dir |-> <<"/", "w">>, err |-> NoErr],
     [dir |-> <<>>, err |-> <<"getwd: no such file or directory">>]}

DotDot == <<".", ".">>

\* filepath.Clean's walk over the elements of a path: "." is dropped and ".."
\* removes the element before it, is dropped at the root, and is kept at the
\* head of a relative path.
RECURSIVE CleanElements(_, _, _)
CleanElements(elements, rooted, out) ==
    IF elements = <<>> THEN out
    ELSE LET e == elements[1]
             rest == Tail(elements)
         IN  IF e = <<>> \/ e = <<".">> THEN CleanElements(rest, rooted, out)
             ELSE IF e = DotDot
                  THEN IF out # <<>> /\ out[Len(out)] # DotDot
                       THEN CleanElements(rest, rooted, SubSeq(out, 1, Len(out) - 1))
                       ELSE IF rooted THEN CleanElements(rest, rooted, out)
                            ELSE CleanElements(rest, rooted, Append(out, e))
                  ELSE CleanElements(rest, rooted, Append(out, e))

\* filepath.Clean
Clean(path) ==
    IF path = <<>> THEN <<".">>
    ELSE LET rooted == path[1] = "/"
             out == CleanElements(Split(path, "/"), rooted, <<>>)
         IN  IF rooted THEN <<"/">> \o Join(out, "/")
             ELSE IF out = <<>> THEN <<".">> ELSE Join(out, "/")

\* filepath.IsAbs
IsAbs(path) == path # <<>> /\ path[1] = "/"

\* filepath.Abs; wd is what os.Getwd returns, asked only for a relative
\* path.
Abs(path, wd) ==
    IF IsAbs(path) THEN [path |-> Clean(path), err |-> NoErr]
    ELSE IF wd.err # NoErr THEN [path |-> <<>>, err |-> wd.err]
    ELSE [path |-> Clean(wd.dir \o <<"/">> \o path), err |-> NoErr]

\* The last position of character c in s; 0 if none.
RECURSIVE LastIndex(_, _, _)
LastIndex(s, c, from) ==
    IF from = 0 THEN 0
    ELSE IF s[from] = c THEN from ELSE LastIndex(s, c, from - 1)

\* filepath.Base of a cleaned path.
Base(path) == SubSeq(path, LastIndex(path, "/", Len(path)) + 1, Len(path))

\* filepath.Dir of a cleaned path.
Dir(path) ==
    LET i == LastIndex(path, "/", Len(path))
    IN  IF i = 0 THEN <<".">>
        ELSE IF i = 1 THEN <<"/">> ELSE SubSeq(path, 1, i - 1)

\* filepath.Ext: the suffix of the last element from its last dot on.
Ext(path) ==
    LET base == Base(path)
        i == LastIndex(base, ".", Len(base))
    IN  IF i = 0 THEN <<>> ELSE SubSeq(base, i, Len(base))

\* filepath.Join of a directory and a file name.
JoinPath(dir, name) == Clean(dir \o <<"/">> \o name)

\* validateFilePath; wd is what os.Getwd returns during the call.
validateFilePath(path, wd) ==
    IF path = <<>> THEN [path |-> <<>>, err |-> <<"file path cannot be empty">>]
    ELSE IF Contains(Clean(path), DotDot)
         THEN [path |-> <<>>, err |-> <<"path contains directory traversal patterns">>]
    ELSE IF Abs(Clean(path), wd).err # NoErr
         THEN [path |-> <<>>, err |-> <<"failed to resolve absolute path">>]
         ELSE [path |-> Abs(Clean(path), wd).path, err |-> NoErr]

----------------------------------------------------------------------------
(* cmd/flags-gen: one run of the tool.  The generator is described by its   *)
(* contract: the text of one AddFlags method per descriptor, a registration *)
(* statement per field that has a registration method, in field order.     *)

\* A line of generated text.
Line(kind, of, name, method, flag, default, usage) ==
    [kind |-> kind, of |-> of, name |-> name, method |-> method, flag |-> flag,
     default |-> default, usage |-> usage]

FuncLine(structInfo) == Line("func", structInfo.Name, <<>>, "", <<>>, <<>>, <<>>)
EndLine(structInfo) == Line("end", structInfo.Name, <<>>, "", <<>>, <<>>, <<>>)
FlagLine(structInfo, f) ==
    Line("flag", structInfo.Name, f.Name, f.FlagMethod, f.FlagName,
         f.DefaultValueCode, f.Description)

\* The empty line that the separator "\n\n" puts between two texts.
BlankLine == Line("blank", "", <<>>, "", <<>>, <<>>, <<>>)

HasFlagMethod(f) == f.FlagMethod # ""

\* generator.GenerateFlags: the lines of the AddFlags method of a descriptor.
GenerateFlags(structInfo) ==
    LET bound == SelectSeq(structInfo.Fields, HasFlagMethod)
    IN  <<FuncLine(structInfo)>>
        \o [k \in DOMAIN bound |-> FlagLine(structInfo, bound[k])]
        \o <<EndLine(structInfo)>>

RECURSIVE JoinGeneratedTrailing(_)
\* Faulty variant: every text is followed by the separator.
JoinGeneratedTrailing(allGenerated) ==
    IF allGenerated = <<>> THEN <<>>
    ELSE allGenerated[1] \o <<BlankLine>> \o JoinGeneratedTrailing(Tail(allGenerated))

\* strings.Join(allGenerated, "\n\n")
JoinGenerated(allGenerated) == Join(allGenerated, BlankLine)

maxFileSize == 10 * 1024 * 1024

SuffixGo == <<".", "g", "o">>
SuffixFlagsGo == <<"_", "f", "l", "a", "g", "s", ".", "g", "o">>

\* The outcome of a run that stops with an error before anything is written.
Failed(msg, steps) == [err |-> <<msg>>, steps |-> steps, writes |-> <<>>]

\* Faulty variant: what was generated before a failure is written.
GenerateAndWritePartial(structs, output, failAt, writeOK, steps) ==
    LET n == IF failAt \in DOMAIN structs THEN failAt - 1 ELSE Len(structs)
        data == JoinGenerated([k \in 1..n |-> GenerateFlags(structs[k])])
    IN  [err |-> IF n < Len(structs) THEN <<"failed to generate flags for struct">>
                 ELSE IF writeOK THEN NoErr ELSE <<"failed to write output file">>,
         steps |-> steps \o [k \in 1..n |-> "GenerateFlags"] \o <<"WriteFile">>,
         writes |-> <<[path |-> output, data |-> data, ok |-> writeOK]>>]

\* runFlagsGen, from the generation loop on: the descriptors are rendered in
\* order, the texts joined and written to the output file.  failAt is the
\* descriptor whose generation fails (0: none), writeOK whether os.WriteFile
\* succeeds.
GenerateAndWrite(structs, output, failAt, writeOK, steps) ==
    IF failAt \in DOMAIN structs
    THEN Failed("failed to generate flags for struct",
                steps \o [k \in 1..failAt |-> "GenerateFlags"])
    ELSE LET data == JoinGenerated([k \in DOMAIN structs |-> GenerateFlags(structs[k])])
             all == steps \o [k \in DOMAIN structs |-> "GenerateFlags"]
                          \o <<"WriteFile">>
         IN  [err |-> IF writeOK THEN NoErr ELSE <<"failed to write output file">>,
              steps |-> all,
              writes |-> <<[path |-> output, data |-> data, ok |-> writeOK]>>]

\* The output file name derived from the input file name.
DefaultOutput(input) ==
    JoinPath(Dir(input), TrimSuffix(Base(input), Ext(input)) \o SuffixFlagsGo)

\* Faulty variant: the size of the input is looked at after it is parsed.
runFlagsGenParseFirst(in, parsed) ==
    LET input == validateFilePath(in.inputFile, in.inWd)
        outName == IF in.outputFile = <<>> THEN DefaultOutput(input.path)
                   ELSE in.outputFile
        output == validateFilePath(outName, in.outWd)
        checks == <<"validateFilePath", "Stat">>
    IN  IF in.inputFile = <<>> THEN Failed("input file is required", <<>>)
        ELSE IF input.err # NoErr
             THEN Failed("invalid input file path", <<"validateFilePath">>)
        ELSE IF in.stat.kind = "missing"
             THEN Failed("input file does not exist", checks)
        ELSE IF in.stat.kind = "denied"
             THEN Failed("cannot access input file", checks)
        ELSE IF TrimSuffix(ToLower(input.path), SuffixGo) = ToLower(input.path)
             THEN Failed("input file must be a Go source file (.go extension)", checks)
        ELSE IF output.err # NoErr
             THEN Failed("invalid output file path", checks \o <<"validateFilePath">>)
        ELSE IF parsed.err # NoErr
             THEN Failed("failed to parse input file",
                         checks \o <<"validateFilePath", "ParseFile">>)
        ELSE IF in.stat.size > maxFileSize
             THEN Failed("input file is too large",
                         checks \o <<"validateFilePath", "ParseFile">>)
        ELSE IF Len(parsed.structs) = 0
             THEN Failed("no structs with +flags-gen annotation found",
                         checks \o <<"validateFilePath", "ParseFile">>)
        ELSE GenerateAndWrite(parsed.structs, output.path, in.failAt, in.writeOK,
                              checks \o <<"validateFilePath", "ParseFile">>)

\* runFlagsGen.  in holds the two flags, what os.Getwd returns while each of
\* them is validated, what os.Stat finds at the input path, and the outcomes
\* of generation and of the write; parsed is what
\* ParseFile returns for the input file.
runFlagsGen(in, parsed) ==
    LET input == validateFilePath(in.inputFile, in.inWd)
        outName == IF in.outputFile = <<>> THEN DefaultOutput(input.path)
                   ELSE in.outputFile
        output == validateFilePath(outName, in.outWd)
        checks == <<"validateFilePath", "Stat">>
    IN  IF in.inputFile = <<>> THEN Failed("input file is required", <<>>)
        ELSE IF input.err # NoErr
             THEN Failed("invalid input file path", <<"validateFilePath">>)
        ELSE IF in.stat.kind = "missing"
             THEN Failed("input file does not exist", checks)
        ELSE IF in.stat.kind = "denied"
             THEN Failed("cannot access input file", checks)
        ELSE IF in.stat.size > maxFileSize
             THEN Failed("input file is too large", checks)
        ELSE IF TrimSuffix(ToLower(input.path), SuffixGo) = ToLower(input.path)
             THEN Failed("input file must be a Go source file (.go extension)", checks)
        ELSE IF output.err # NoErr
             THEN Failed("invalid output file path", checks \o <<"validateFilePath">>)
        ELSE IF parsed.err # NoErr
             THEN Failed("failed to parse input file",
                         checks \o <<"validateFilePath", "ParseFile">>)
        ELSE IF Len(parsed.structs) = 0
             THEN Failed("no structs with +flags-gen annotation found",
                         checks \o <<"validateFilePath", "ParseFile">>)
        ELSE GenerateAndWrite(parsed.structs, output.path, in.failAt, in.writeOK,
                              checks \o <<"validateFilePath", "ParseFile">>)

----------------------------------------------------------------------------
(* The source files ParseFile is explored on.                              *)

NPort == <<"P","o","r","t">>
NAddr == <<"A","d","d","r">>
NSec == <<"s","e","c">>
NURLPath == <<"U","R","L","P","a","t","h">>

\* "// Cfg"
PlainLine == <<"/","/"," ","C","f","g">>

\* "// +flags-gen"
MarkerLine == <<"/","/"," ">> \o Marker

TimeDuration == SelectorExpr(Ident("time"), "Duration")

PlainField(names, type) == Field(names, type, NoTag, NoDoc, NoDoc)

\* struct { Port int }
StructOK == StructType(<<PlainField(<<NPort>>, Ident("int"))>>)

\* struct { Port *int }
StructBad == StructType(<<PlainField(<<NPort>>, StarExpr(Ident("int")))>>)

\* What a type specification can declare here: two structs, a named
\* non-struct type and an interface.
SpecTypes == {StructOK, StructBad, Ident("int"), InterfaceType}

GroupDocs == {NoDoc, Doc(<<PlainLine>>), Doc(<<MarkerLine, PlainLine>>)}

SpecDocs == {NoDoc, Doc(<<MarkerLine>>)}

\* All sequences over S of length at most n.
RECURSIVE SeqsUpTo(_, _)
SeqsUpTo(S, n) ==
    IF n = 0 THEN {<<>>}
    ELSE LET shorter == SeqsUpTo(S, n - 1)
         IN  shorter \cup {Append(q, x) : q \in shorter, x \in S}

\* A single type declaration carries its documentation on the declaration
\* and none on the specification; in a parenthesized group each
\* specification has documentation of its own.  Names are given by place.
SingleTypeDecls ==
    {GenDecl("type", FALSE, gd, <<TypeSpec("", NoDoc, ty)>>) :
        gd \in GroupDocs, ty \in SpecTypes}

GroupedTypeDecls ==
    {GenDecl("type", TRUE, gd, specs) :
        gd \in GroupDocs,
        specs \in SeqsUpTo({TypeSpec("", sd, ty) : sd \in SpecDocs, ty \in SpecTypes},
                           MaxSpecs) \ {<<>>}}

\* Declarations that are no type declarations: a function, and a documented
\* variable of struct type.
OtherDecls ==
    {FuncDecl,
     GenDecl("var", FALSE, Doc(<<MarkerLine>>),
             <<[kind |-> "ValueSpec", type |-> StructOK]>>)}

\* A declaration that may stand before or after the declaration under study.
NeighbourDecls ==
    OtherDecls
    \cup {GenDecl("type", FALSE, Doc(<<MarkerLine>>), <<TypeSpec("", NoDoc, StructOK)>>),
          GenDecl("type", FALSE, NoDoc, <<TypeSpec("", NoDoc, StructBad)>>)}

\* The name of specification s of declaration d.
TypeNameAt(d, s) == "T" \o DigitChars[d + 1] \o DigitChars[s + 1]

NamedDecl(decl, d) ==
    IF decl.kind = "GenDecl" /\ decl.tok = "type"
    THEN [decl EXCEPT !.specs =
            [s \in DOMAIN decl.specs |-> [decl.specs[s] EXCEPT !.name = TypeNameAt(d, s)]]]
    ELSE decl

SourceFile(decls) ==
    [name |-> "config.go", pkg |-> "main", syntaxOK |-> TRUE,
     decls |-> [d \in DOMAIN decls |-> NamedDecl(decls[d], d)]]

\* The declarations under study, with a neighbour before or after.
MainDecls == SingleTypeDecls \cup GroupedTypeDecls

Placed(main, neighbour, where) ==
    CASE where = "alone" -> <<main>>
      [] where = "after" -> <<neighbour, main>>
      [] where = "before" -> <<main, neighbour>>

\* Identifier lists without repetition, of at most n names.
RECURSIVE NameLists(_)
NameLists(n) ==
    IF n = 0 THEN {<<>>}
    ELSE LET shorter == NameLists(n - 1)
         IN  shorter \cup UNION {{Append(l, x) : x \in {NPort, NAddr, NSec} \ Range(l)} :
                                    l \in shorter}

\* Field declarations that vary names and type shapes.  An embedded field (no
\* names) is a type name or a pointer to one.
ShapeFields ==
    {PlainField(names, ty) :
        names \in NameLists(MaxNames) \ {<<>>},
        ty \in {Ident("string"), TimeDuration, StarExpr(Ident("int")),
                MapType(Ident("string"), Ident("int"))}}
    \cup {PlainField(<<>>, ty) :
            ty \in {Ident("Base"), TimeDuration, StarExpr(Ident("Base"))}}

AnnotatedStruct(fields) ==
    SourceFile(<<GenDecl("type", FALSE, Doc(<<MarkerLine, PlainLine>>),
                         <<TypeSpec("", NoDoc, StructType(fields))>>)>>)

Chars8080 == <<"8","0","8","0">>
CharsAbc == <<"a","b","c">>

\* Tag entries: json names with and without options, defaults well-formed
\* and not, and keys that only end in json or default.
TagEntries ==
    {Entry(KeyJSON, <<"l","i","s","t","e","n","P","o","r","t">>),
     Entry(KeyJSON, <<"p","o","r","t",",","o","m","i","t","e","m","p","t","y">>),
     Entry(KeyJSON, <<",","o","m","i","t","e","m","p","t","y">>),
     Entry(KeyDefault, Chars8080),
     Entry(KeyDefault, CharsAbc),
     Entry(KeyDefault, <<>>),
     Entry(KeyDefault, <<"a",",","b">>),
     Entry(KeyDefault, ExTrue),
     Entry(<<"y","a","m","l">>, <<"y">>),
     Entry(<<"m","y">> \o KeyJSON, <<"n">>),
     Entry(<<"x">> \o KeyDefault, <<"7">>)}

\* Tags of one entry or of two entries with different keys, in either kind of
\* string literal.
Tags ==
    {NoTag}
    \cup {Tag(raw, <<e>>) : raw \in BOOLEAN, e \in TagEntries}
    \cup {Tag(raw, <<p[1], p[2]>>) :
            raw \in BOOLEAN,
            p \in {q \in TagEntries \X TagEntries : q[1].key # q[2].key}}

\* The field types the tags are tried on.
TaggedTypes ==
    {Ident("string"), Ident("int"), Ident("bool"), ArrayType(FALSE, Ident("string")),
     TimeDuration, Ident("uint")}

\* The file of TestParser_ParseFile: an annotated struct ServerConfig with
\* four exported fields and an unexported one, and a struct without the
\* annotation.
NHost == <<"H", "o", "s", "t">>
NDebug == <<"D", "e", "b", "u", "g">>
NTags == <<"T", "a", "g", "s">>
NSecret == <<"s", "e", "c", "r", "e", "t">>
NValue == <<"V", "a", "l", "u", "e">>

ServerConfigFields ==
    <<Field(<<NHost>>, Ident("string"),
            Tag(TRUE, <<Entry(KeyJSON, <<"h", "o", "s", "t">>),
                        Entry(KeyDefault, <<"l", "o", "c", "a", "l", "h", "o", "s", "t">>)>>),
            Doc(<<<<"/", "/", " ", "H", "o", "s", "t", " ", "i", "s", " ",
                  "t", "h", "e", " ", "s", "e", "r", "v", "e", "r", " ", "h",
                  "o", "s", "t", "n", "a", "m", "e">>>>), NoDoc),
      Field(<<NPort>>, Ident("int"),
            Tag(TRUE, <<Entry(KeyJSON, <<"p", "o", "r", "t">>), Entry(KeyDefault, Chars8080)>>),
            Doc(<<<<"/", "/", " ", "P", "o", "r", "t", " ", "i", "s", " ",
                  "t", "h", "e", " ", "s", "e", "r", "v", "e", "r", " ", "p",
                  "o", "r", "t">>>>), NoDoc),
      Field(<<NDebug>>, Ident("bool"),
            Tag(TRUE, <<Entry(KeyJSON, <<"d", "e", "b", "u", "g">>)>>),
            Doc(<<<<"/", "/", " ", "E", "n", "a", "b", "l", "e", " ", "d",
                  "e", "b", "u", "g", " ", "m", "o", "d", "e">>>>), NoDoc),
      Field(<<NTags>>, ArrayType(FALSE, Ident("string")),
            Tag(TRUE, <<Entry(KeyJSON, <<"t", "a", "g", "s">>), Entry(KeyDefault, ExWebApi)>>),
            Doc(<<<<"/", "/", " ", "T", "a", "g", "s", " ", "f", "o", "r", " ", "f", "i", "l", "t", "e", "r", "i", "n", "g">>>>), NoDoc),
      Field(<<NSecret>>, Ident("string"),
            Tag(TRUE, <<Entry(KeyJSON, <<"s", "e", "c", "r", "e", "t">>)>>),
            Doc(<<<<"/", "/", " ", "u", "n", "e", "x", "p", "o", "r", "t",
                  "e", "d", " ", "f", "i", "e", "l", "d", " ", "s", "h", "o",
                  "u", "l", "d", " ", "b", "e", " ", "i", "g", "n", "o", "r",
                  "e", "d">>>>), NoDoc)>>

ServerConfigDecl ==
    GenDecl("type", FALSE,
            Doc(<<MarkerLine,
                  <<"/", "/", " ", "S", "e", "r", "v", "e", "r", "C", "o",
                  "n", "f", "i", "g", " ", "d", "e", "f", "i", "n", "e", "s",
                  " ", "s", "e", "r", "v", "e", "r", " ", "c", "o", "n", "f",
                  "i", "g", "u", "r", "a", "t", "i", "o", "n">>>>),
            <<TypeSpec("ServerConfig", NoDoc, StructType(ServerConfigFields))>>)

IgnoredConfigDecl ==
    GenDecl("type", FALSE,
            Doc(<<<<"/", "/", " ", "R", "e", "g", "u", "l", "a", "r", " ",
                  "s", "t", "r", "u", "c", "t", " ", "w", "i", "t", "h", "o",
                  "u", "t", " ", "a", "n", "n", "o", "t", "a", "t", "i", "o",
                  "n", " ", "-", " ", "s", "h", "o", "u", "l", "d", " ", "b",
                  "e", " ", "i", "g", "n", "o", "r", "e", "d">>>>),
            <<TypeSpec("IgnoredConfig", NoDoc,
                       StructType(<<Field(<<NValue>>, Ident("string"),
                                          Tag(TRUE, <<Entry(KeyJSON, <<"v", "a", "l", "u", "e">>)>>),
                                          NoDoc, NoDoc)>>))>>)

ServerConfigFile ==
    [name |-> "test.go", pkg |-> "main", syntaxOK |-> TRUE,
     decls |-> <<ServerConfigDecl, IgnoredConfigDecl>>]

\* Field types of every key of SupportedTypes, a fixed-length array, and types
\* outside the table.
TypedTypes ==
    {Ident(n) : n \in {"string", "int", "int32", "int64", "uint", "uint32", "uint64",
                       "bool", "float32", "float64", "Custom"}}
    \cup {ArrayType(FALSE, Ident("string")), ArrayType(FALSE, Ident("int")),
          ArrayType(TRUE, Ident("int")), TimeDuration,
          SelectorExpr(Ident("pkg"), "T")}

Ex5m == <<"5", "m">>

\* Default strings: empty, a word, integers, a list, a fraction, durations,
\* a boolean.
TypedDefaults ==
    {<<>>, CharsAbc, <<"5">>, Ex42, <<"1", ",", "2">>, <<"0", ".", "5">>, Ex30s, Ex5m,
     ExTrue}

\* No tag, a tag without a default entry, a tag with one in either kind of
\* string literal, and a tag whose key only ends in default.
TypedTags ==
    {NoTag, Tag(TRUE, <<Entry(KeyJSON, <<"p", "o", "r", "t">>)>>),
     Tag(TRUE, <<Entry(<<"x">> \o KeyDefault, <<"7">>)>>)}
    \cup {Tag(raw, <<Entry(KeyDefault, v)>>) : raw \in BOOLEAN, v \in TypedDefaults}

\* Comments of a doc block: plain lines, annotation lines, an empty line, a
\* block comment, a line with spaces around its text.
DocComments ==
    {<<"/", "/", " ", "T", "h", "e", " ", "p", "o", "r", "t">>,
     <<"/", "/", " ", "+", "o", "p", "t", "i", "o", "n", "a", "l">>,
     <<"/", "/", "+", "k">>,
     <<"/", "/">>,
     <<"/", "*", " ", "I", "n", " ", "u", "s", "e", " ", "*", "/">>,
     <<"/", "/", " ", " ", "W", "i", "d", "e", " ">>,
     <<"/", "/", "\f", "F", "e", "e", "d", VerticalTab, "\f">>}

FieldDocs == {NoDoc} \cup {Doc(l) : l \in SeqsUpTo(DocComments, MaxDocLines) \ {<<>>}}

\* Trailing comments on the line of the field: none, a line comment, a block
\* comment, a line comment that starts with a plus sign.
FieldComments ==
    {NoDoc,
     Doc(<<<<"/", "/", " ", "i", "n", "l", "i", "n", "e">>>>),
     Doc(<<<<"/", "*", " ", "b", "l", "o", "c", "k", " ", "*", "/">>>>),
     Doc(<<<<"/", "/", " ", "+", "p", "l", "u", "s">>>>),
     Doc(<<<<"/", "/", " ", "F", "e", "e", "d", "\f">>>>)}

\* A file whose text does not parse.
BrokenFile == [name |-> "broken.go", pkg |-> "", syntaxOK |-> FALSE, decls |-> <<>>]

----------------------------------------------------------------------------
(* The parser as a state machine: a fresh Parser, then one ParseFile.      *)

Init ==
    /\ fileSet = <<>>
    /\ call = NoCall
    /\ done = <<>>
    /\ written = <<>>

\* One call of ParseFile on the parser: the file joins the parser's file set
\* and the call is recorded among the calls made so far.
ParseFile(file) ==
    /\ call = NoCall
    /\ \E ret \in ParseFileResult(file) :
          /\ call' = [fn |-> "ParseFile", arg |-> file, ret |-> ret]
          /\ done' = Append(done, [arg |-> file, ret |-> ret])
    /\ fileSet' = Append(fileSet, file.name)
    /\ UNCHANGED written

\* Files that vary where the declarations and their documentation stand.
ParseSelectionFile ==
    /\ call = NoCall
    /\ \E main \in MainDecls, neighbour \in NeighbourDecls,
          where \in {"alone", "after", "before"} :
           ParseFile(SourceFile(Placed(main, neighbour, where)))

\* The types of the declarations whose kind is varied: structs, a basic
\* type, names of other types, an interface, a function, a slice, a map.
KindTypes ==
    {StructOK, StructBad, Ident("int"), Ident("Base"), SelectorExpr(Ident("pkg"), "T"),
     InterfaceType, FuncType, ArrayType(FALSE, Ident("string")),
     MapType(Ident("string"), Ident("int"))}

\* Files of one type declaration, a definition or an alias, single or in a
\* parenthesized group, alone or after an annotated struct.
ParseKindFile ==
    /\ call = NoCall
    /\ \E ty \in KindTypes, alias \in BOOLEAN, lparen \in BOOLEAN, gd \in GroupDocs,
          sd \in SpecDocs, follows \in BOOLEAN :
          LET spec == IF alias THEN AliasSpec("", IF lparen THEN sd ELSE NoDoc, ty)
                      ELSE TypeSpec("", IF lparen THEN sd ELSE NoDoc, ty)
              lead == IF follows
                      THEN <<GenDecl("type", FALSE, Doc(<<MarkerLine>>),
                                     <<TypeSpec("", NoDoc, StructOK)>>)>>
                      ELSE <<>>
          IN  ParseFile(SourceFile(lead \o <<GenDecl("type", lparen, gd, <<spec>>)>>))

NUrlPath == <<"U", "r", "l", "P", "a", "t", "h">>

\* Files of one annotated struct with two fields of different identifiers,
\* each without a tag or with a json name.
ParseNamedFile ==
    /\ call = NoCall
    /\ \E names \in {n \in {NPort, NAddr, NURLPath, NUrlPath} \X
                           {NPort, NAddr, NURLPath, NUrlPath} : n[1] # n[2]},
          tags \in {NoTag, Tag(TRUE, <<Entry(KeyJSON, <<"p", "o", "r", "t">>)>>),
                    Tag(TRUE, <<Entry(KeyJSON, <<"a", "d", "d", "r">>)>>)} \X
                   {NoTag, Tag(TRUE, <<Entry(KeyJSON, <<"p", "o", "r", "t">>)>>)} :
          ParseFile(AnnotatedStruct(
              <<Field(<<names[1]>>, Ident("string"), tags[1], NoDoc, NoDoc),
                Field(<<names[2]>>, Ident("int"), tags[2], NoDoc, NoDoc)>>))

\* Files of one annotated struct that vary the names and type shapes of its
\* fields.
ParseShapeFile ==
    /\ call = NoCall
    /\ \E n \in 0..MaxFields :
          \E fields \in [1..n -> ShapeFields] : ParseFile(AnnotatedStruct(fields))

\* Files of one annotated struct that vary the tag of one field, alone or
\* after an untagged field.
ParseTagFile ==
    /\ call = NoCall
    /\ \E lead \in {<<>>, <<PlainField(<<NAddr>>, Ident("string"))>>},
          name \in {NPort, NURLPath}, ty \in TaggedTypes, tag \in Tags \ {NoTag} :
           ParseFile(AnnotatedStruct(lead \o <<Field(<<name>>, ty, tag, NoDoc, NoDoc)>>))

ParseBrokenFile == ParseFile(BrokenFile)

\* Files of one annotated struct with a field of every supported type and
\* of some others, with and without a default, alone or between two other
\* fields.
ParseTypedFile ==
    /\ call = NoCall
    /\ \E ty \in TypedTypes, tag \in TypedTags, between \in BOOLEAN :
          LET lead == IF between THEN <<PlainField(<<NAddr>>, Ident("string"))>> ELSE <<>>
              trail == IF between THEN <<PlainField(<<NHost>>, Ident("bool"))>> ELSE <<>>
          IN  ParseFile(AnnotatedStruct(
                  lead \o <<Field(<<NPort>>, ty, tag, NoDoc, NoDoc)>> \o trail))

\* Files of one annotated struct with one field that vary the comments
\* around the field.
ParseCommentFile ==
    /\ call = NoCall
    /\ \E doc \in FieldDocs, comment \in FieldComments :
          ParseFile(AnnotatedStruct(<<Field(<<NPort>>, Ident("int"), NoTag, doc, comment)>>))

\* The file of the parser's own test.
ParseExampleFile == ParseFile(ServerConfigFile)

Next ==
    \/ ParseSelectionFile
    \/ ParseShapeFile
    \/ ParseTagFile
    \/ ParseBrokenFile
    \/ ParseTypedFile
    \/ ParseCommentFile
    \/ ParseExampleFile
    \/ ParseKindFile
    \/ ParseNamedFile

Spec == Init /\ [][Next]_vars

\* toKebabCase on its own and inside ParseFile, where it makes the flag
\* names.
NextNames ==
    \/ CallToKebabCase
    \/ ParseTagFile
    \/ ParseNamedFile

SpecNames == Init /\ [][NextNames]_vars

----------------------------------------------------------------------------
(* Parsers that are reused: several ParseFile calls, on one Parser or on    *)
(* fresh ones.                                                             *)

NTimeout == <<"T", "i", "m", "e", "o", "u", "t">>

\* struct { Timeout time.Duration; Tags []string; sec time.Duration }
TimeoutFile ==
    AnnotatedStruct(<<PlainField(<<NTimeout>>, TimeDuration),
                      PlainField(<<NTags>>, ArrayType(FALSE, Ident("string"))),
                      PlainField(<<NSec>>, TimeDuration)>>)

\* Two annotated structs, each with two duration fields.
TwoTimeoutsFile ==
    SourceFile(<<GenDecl("type", FALSE, Doc(<<MarkerLine>>),
                         <<TypeSpec("", NoDoc,
                                    StructType(<<PlainField(<<NTimeout, NPort>>,
                                                            TimeDuration)>>))>>),
                 GenDecl("type", FALSE, Doc(<<MarkerLine>>),
                         <<TypeSpec("", NoDoc,
                                    StructType(<<PlainField(<<NTimeout>>, TimeDuration),
                                                 PlainField(<<NAddr>>, TimeDuration)>>))>>)>>)

ReuseFiles ==
    {ServerConfigFile, TimeoutFile, TwoTimeoutsFile, BrokenFile,
     AnnotatedStruct(<<>>),
     AnnotatedStruct(<<PlainField(<<NPort>>, StarExpr(Ident("int")))>>),
     SourceFile(<<IgnoredConfigDecl>>)}

\* ParseFile on a parser that may have parsed files before.
ParseReuseFile ==
    /\ call = NoCall
    /\ Len(done) < MaxParses
    /\ \E file \in ReuseFiles : ParseFile(file)

\* ParseFile has returned to its caller.
Return ==
    /\ call # NoCall
    /\ call' = NoCall
    /\ UNCHANGED <<fileSet, done, written>>

\* New: the caller goes on with a fresh Parser.
New ==
    /\ call = NoCall
    /\ fileSet # <<>>
    /\ fileSet' = <<>>
    /\ UNCHANGED <<call, done, written>>

NextReuse ==
    \/ ParseReuseFile
    \/ Return
    \/ New

SpecReuse == Init /\ [][NextReuse]_vars

----------------------------------------------------------------------------
(* One run of the command: runFlagsGen with its flags and its environment.  *)

\* Values of the --input flag.
InputFiles ==
    {<<>>,
     <<"c", "f", "g", ".", "g", "o">>,
     <<"a", "/", "c", "f", "g", ".", "g", "o">>,
     <<".", "/", "c", "f", "g", ".", "g", "o">>,
     <<"a", "/", ".", ".", "/", "c", "f", "g", ".", "g", "o">>,
     <<".", ".", "/", "c", "f", "g", ".", "g", "o">>,
     <<"/", "w", "/", "c", "f", "g", ".", "g", "o">>,
     <<"/", "e", "t", "c", "/", "c", "f", "g", ".", "g", "o">>,
     <<"c", "f", "g", ".", "t", "x", "t">>,
     <<"C", "F", "G", ".", "G", "O">>,
     <<"a", ".", ".", "b", ".", "g", "o">>,
     <<"c", "f", "g">>,
     <<".", "g", "o">>}

\* Values of the --output flag.
OutputFiles ==
    {<<>>,
     <<"o", "u", "t", ".", "g", "o">>,
     <<".", ".", "/", "o", "u", "t", ".", "g", "o">>,
     <<"g", "e", "n", "/", "o", "u", "t", ".", "t", "x", "t">>,
     <<"/", "t", "m", "p", "/", "o", "u", "t", ".", "g", "o">>}

\* What os.Stat finds at the input path.
Stats ==
    {[kind |-> "missing", size |-> 0], [kind |-> "denied", size |-> 0]}
    \cup {[kind |-> "file", size |-> n] : n \in {0, 1, maxFileSize, maxFileSize + 1}}

\* An annotated struct, an unannotated one, a second annotated one and a
\* function, in this order.
MixedFile ==
    SourceFile(<<GenDecl("type", FALSE, Doc(<<MarkerLine>>),
                         <<TypeSpec("", NoDoc,
                                    StructType(<<PlainField(<<NTimeout>>, TimeDuration),
                                                 PlainField(<<NSec>>, Ident("int"))>>))>>),
                 GenDecl("type", FALSE, NoDoc,
                         <<TypeSpec("", NoDoc,
                                    StructType(<<PlainField(<<NPort>>, Ident("int"))>>))>>),
                 GenDecl("type", FALSE, Doc(<<MarkerLine>>),
                         <<TypeSpec("", NoDoc,
                                    StructType(<<PlainField(<<NAddr>>, Ident("string")),
                                                 PlainField(<<NPort>>, Ident("int"))>>))>>),
                 FuncDecl>>)

\* Two structs in one parenthesized group, each annotated in its own
\* documentation block.
GroupedFile ==
    SourceFile(<<GenDecl("type", TRUE, NoDoc,
                         <<TypeSpec("", Doc(<<MarkerLine>>),
                                    StructType(<<PlainField(<<NPort>>, Ident("int"))>>)),
                           TypeSpec("", Doc(<<MarkerLine>>),
                                    StructType(<<PlainField(<<NAddr>>, Ident("string"))>>))>>)>>)

\* The contents of the input file.
RunFiles == ReuseFiles \cup {MixedFile, GroupedFile}

\* main: the exit status of the process, 1 when Execute returns an error.
ExitCode(err) == IF err # NoErr THEN 1 ELSE 0

\* The command runs once: flags, environment and file contents are chosen,
\* and runFlagsGen runs to its return.
RunFlagsGen ==
    /\ call = NoCall
    /\ done = <<>>
    /\ written = <<>>
    /\ \E inputFile \in InputFiles, outputFile \in OutputFiles, stat \in Stats,
          content \in RunFiles, failAt \in 0..MaxSpecs, writeOK \in BOOLEAN,
          inWd \in Getwd, outWd \in Getwd :
          LET in == [inputFile |-> inputFile, outputFile |-> outputFile, stat |-> stat,
                     failAt |-> failAt, writeOK |-> writeOK, inWd |-> inWd,
                     outWd |-> outWd]
              file == [content EXCEPT !.name = validateFilePath(inputFile, inWd).path]
          IN  \E parsed \in ParseFileResult(file) :
                  LET ret == runFlagsGen(in, parsed)
                      reached == \E k \in DOMAIN ret.steps : ret.steps[k] = "ParseFile"
                  IN  /\ call' = [fn |-> "runFlagsGen", arg |-> in, ret |-> ret,
                                  exit |-> ExitCode(ret.err)]
                      /\ fileSet' = IF reached THEN <<file.name>> ELSE <<>>
                      /\ done' = IF reached THEN <<[arg |-> file, ret |-> parsed]>>
                                 ELSE <<>>
                      /\ written' = ret.writes

NextRun ==
    \/ RunFlagsGen
    \/ Return

SpecRun == Init /\ [][NextRun]_vars

----------------------------------------------------------------------------
(* What the claims about ParseFile speak of: the struct declarations of    *)
(* the source, their documentation, their fields.                          *)

Parsed == call.fn = "ParseFile" /\ call.arg.syntaxOK

\* The places <<d, s>> of the struct type specifications of a file.
StructSpecs(file) ==
    {p \in (DOMAIN file.decls) \X (1..MaxSpecs + 1) :
        /\ file.decls[p[1]].kind = "GenDecl"
        /\ file.decls[p[1]].tok = "type"
        /\ p[2] \in DOMAIN file.decls[p[1]].specs
        /\ file.decls[p[1]].specs[p[2]].type.node = "StructType"}

SpecAt(file, p) == file.decls[p[1]].specs[p[2]]

\* The documentation block attached to the declaration of a type: the
\* specification's own inside a parenthesized group, the declaration's
\* otherwise.
AttachedDoc(file, p) ==
    IF file.decls[p[1]].lparen THEN SpecAt(file, p).doc ELSE file.decls[p[1]].doc

DocHasMarker(doc) ==
    doc.present /\ \E k \in DOMAIN doc.list : Contains(doc.list[k], Marker)

Annotated(file, p) == DocHasMarker(AttachedDoc(file, p))

\* The descriptors returned for the struct at place p.
DescriptorsOf(ret, file, p) ==
    {k \in DOMAIN ret.structs : ret.structs[k].Name = SpecAt(file, p).name}

\* The place of the struct a descriptor is named after.
PlaceOf(file, descriptor) ==
    CHOOSE p \in StructSpecs(file) : SpecAt(file, p).name = descriptor.Name

\* The named fields of a struct, one entry per identifier, in source order.
RECURSIVE NamedFields(_)
NamedFields(list) ==
    IF list = <<>> THEN <<>>
    ELSE [n \in DOMAIN list[1].names |-> [name |-> list[1].names[n], field |-> list[1]]]
         \o NamedFields(Tail(list))

StartsUpperCase(name) == name # <<>> /\ name[1] \in UpperSet

IsExportedEntry(e) == StartsUpperCase(e.name)

\* The exported named fields of a struct, in source order.
ExportedFields(structType) == SelectSeq(NamedFields(structType.fields), IsExportedEntry)

\* A pointer, map, function or inline struct type.
UnsupportedShape(type) == type.node \in {"StarExpr", "MapType", "FuncType", "StructType"}

----------------------------------------------------------------------------
(* C1 *)

\* Every field of every struct of the file has a type that resolves.
AllFieldsResolve(file) ==
    \A p \in StructSpecs(file) :
        \A f \in DOMAIN SpecAt(file, p).type.fields :
            parseType(SpecAt(file, p).type.fields[f].type).err = NoErr

\* C1 (as claimed): on a well-formed file whose fields all resolve, a struct
\* declaration, written alone or inside a parenthesized group, gets a
\* descriptor if and only if the documentation block attached to it holds the
\* marker +flags-gen.
C1_AnnotationGating ==
    Parsed /\ AllFieldsResolve(call.arg) =>
        \A p \in StructSpecs(call.arg) :
            DescriptorsOf(call.ret, call.arg, p) # {} <=> Annotated(call.arg, p)

\* Outside parenthesized groups the gating is as claimed.
C1_SingleDeclarations ==
    Parsed /\ AllFieldsResolve(call.arg) =>
        \A p \in StructSpecs(call.arg) :
            ~call.arg.decls[p[1]].lparen =>
                (DescriptorsOf(call.ret, call.arg, p) # {} <=> Annotated(call.arg, p))

----------------------------------------------------------------------------
(* C2 *)

\* C2: no descriptor holds an unexported or an embedded field: every FieldInfo
\* is named after an exported identifier of a named field of its struct, and
\* an error, when one is raised, names an exported identifier too.
C2_Exclusion ==
    call.fn = "ParseFile" =>
        /\ \A k \in DOMAIN call.ret.structs :
              LET named == NamedFields(
                      SpecAt(call.arg, PlaceOf(call.arg, call.ret.structs[k])).type.fields)
              IN  \A i \in DOMAIN call.ret.structs[k].Fields :
                      /\ StartsUpperCase(call.ret.structs[k].Fields[i].Name)
                      /\ \E e \in Range(named) :
                            e.name = call.ret.structs[k].Fields[i].Name
        /\ (call.ret.err # NoErr /\ call.ret.err[1] = "failed to parse struct") =>
              StartsUpperCase(call.ret.err[4])

\* A struct with an unexported pointer field and an embedded pointer has been
\* parsed without error, and only its exported field is described.
C2_Witness ==
    /\ Parsed
    /\ call.ret.err = NoErr
    /\ Len(call.ret.structs) = 1
    /\ Len(call.ret.structs[1].Fields) = 1
    /\ \E p \in StructSpecs(call.arg) :
          LET fields == SpecAt(call.arg, p).type.fields
          IN  /\ Len(fields) = 2
              /\ fields[1].names = <<>> /\ fields[1].type.node = "StarExpr"
              /\ fields[2].names = <<NSec, NPort>>

----------------------------------------------------------------------------
(* C3 *)

\* C3: the field list of every descriptor names the exported identifiers of
\* the struct's named fields, one FieldInfo per identifier, in source order.
C3_FieldOrder ==
    call.fn = "ParseFile" =>
        \A k \in DOMAIN call.ret.structs :
            LET exported == ExportedFields(
                    SpecAt(call.arg, PlaceOf(call.arg, call.ret.structs[k])).type)
            IN  [i \in DOMAIN call.ret.structs[k].Fields |->
                    call.ret.structs[k].Fields[i].Name]
                = [i \in DOMAIN exported |-> exported[i].name]

\* A struct whose first field names two exported identifiers, followed by
\* another exported field, has been described in that order.
C3_Witness ==
    /\ Parsed
    /\ Len(call.ret.structs) = 1
    /\ [i \in DOMAIN call.ret.structs[1].Fields |-> call.ret.structs[1].Fields[i].Name]
       = <<NPort, NAddr>>
    /\ \E p \in StructSpecs(call.arg) :
          /\ Len(SpecAt(call.arg, p).type.fields) = 2
          /\ SpecAt(call.arg, p).type.fields[1].names = <<NSec, NPort>>
          /\ SpecAt(call.arg, p).type.fields[2].names = <<NAddr>>

----------------------------------------------------------------------------
(* C4 *)

\* The exported named fields of annotated structs whose type is a pointer, a
\* map, a function or an inline struct.
OffendingFields(file) ==
    UNION {{e.name : e \in {x \in Range(ExportedFields(SpecAt(file, p).type)) :
                               UnsupportedShape(x.field.type)}} :
           p \in {q \in StructSpecs(file) : Annotated(file, q)}}

\* C4 (as claimed): when an exported named field of an annotated struct has a
\* pointer, map, function or inline struct type, ParseFile returns an error
\* that names such a field, and no descriptor at all.
C4_UnsupportedIsTotal ==
    Parsed /\ OffendingFields(call.arg) # {} =>
        /\ call.ret.err # NoErr
        /\ call.ret.structs = <<>>
        /\ call.ret.err[4] \in OffendingFields(call.arg)

\* The same for the structs ParseFile selects (by the documentation of the
\* whole declaration).
C4_SelectedStructs ==
    Parsed =>
        LET offending ==
                UNION {{e.name : e \in {x \in Range(ExportedFields(SpecAt(call.arg, p).type)) :
                                           UnsupportedShape(x.field.type)}} :
                       p \in {q \in StructSpecs(call.arg) :
                                 DocHasMarker(call.arg.decls[q[1]].doc)}}
        IN  offending # {} =>
                /\ call.ret.err # NoErr
                /\ call.ret.structs = <<>>
                /\ call.ret.err[4] \in offending

----------------------------------------------------------------------------
(* C7 *)

\* The value of the first entry of a tag whose key is exactly `key`.
RECURSIVE EntryValueFrom(_, _, _)
EntryValueFrom(entries, key, k) ==
    IF k > Len(entries) THEN [found |-> FALSE, val |-> <<>>]
    ELSE IF entries[k].key = key THEN [found |-> TRUE, val |-> entries[k].val]
         ELSE EntryValueFrom(entries, key, k + 1)

EntryValue(tag, key) ==
    IF tag.written THEN EntryValueFrom(tag.entries, key, 1)
    ELSE [found |-> FALSE, val |-> <<>>]

\* The text before the first comma.
NameSegment(v) ==
    IF IndexFrom(v, ",", 1) = 0 THEN v ELSE SubSeq(v, 1, IndexFrom(v, ",", 1) - 1)

\* The external name of a field: the name segment of its json tag entry, empty
\* without a tag or without a json entry.
ExternalName(field) == NameSegment(EntryValue(field.tag, KeyJSON).val)

\* Each FieldInfo returned, with the field declaration it was made from.
DescribedFields ==
    IF call.fn # "ParseFile" THEN {}
    ELSE UNION {{[info |-> call.ret.structs[k].Fields[i],
                  source |-> ExportedFields(SpecAt(call.arg,
                                PlaceOf(call.arg, call.ret.structs[k])).type)[i].field] :
                    i \in DOMAIN call.ret.structs[k].Fields} :
                k \in DOMAIN call.ret.structs}

\* C7 (as claimed): the flag name is the kebab-case of the external name when
\* the json entry's name segment is not empty, and of the field identifier
\* otherwise (no tag, no json entry, json:",omitempty").
C7_FlagName ==
    \A fd \in DescribedFields :
        fd.info.FlagName =
            IF ExternalName(fd.source) # <<>>
            THEN toKebabCase(ExternalName(fd.source))
            ELSE toKebabCase(fd.info.Name)

\* The same for tags written as raw string literals in which no key merely
\* ends in json.
C7_PlainRawTags ==
    \A fd \in DescribedFields :
        (fd.source.tag.written =>
            /\ fd.source.tag.raw
            /\ \A k \in DOMAIN fd.source.tag.entries :
                  fd.source.tag.entries[k].key # <<"m","y">> \o KeyJSON) =>
        fd.info.FlagName =
            IF ExternalName(fd.source) # <<>>
            THEN toKebabCase(ExternalName(fd.source))
            ELSE toKebabCase(fd.info.Name)

----------------------------------------------------------------------------
(* C9 *)

\* Not a base-10 integer on an integer field, not a boolean spelling on a
\* boolean field.
MalformedDefault(fieldType, v) ==
    \/ /\ fieldType \in {"int", "int32", "int64"}
       /\ LET ds == IF v # <<>> /\ v[1] \in {"+", "-"} THEN Tail(v) ELSE v
          IN  ds = <<>> \/ \E i \in DOMAIN ds : ~IsDigit(ds[i])
    \/ /\ fieldType = "bool"
       /\ v \notin TrueSpellings \cup FalseSpellings

\* C9 (as claimed): a malformed default on an integer or boolean field does
\* not make ParseFile fail, and the field is described, in its place, with the
\* raw default string as DefaultValue.
C9_SilentFallback ==
    Parsed =>
        /\ (\A p \in StructSpecs(call.arg) :
               \A e \in Range(ExportedFields(SpecAt(call.arg, p).type)) :
                   parseType(e.field.type).err = NoErr)
           => call.ret.err = NoErr
        /\ \A fd \in DescribedFields :
              LET default == EntryValue(fd.source.tag, KeyDefault)
              IN  default.found /\ MalformedDefault(fd.info.Type, default.val) =>
                      fd.info.DefaultValue = StringValue(default.val)

\* The same for tags written as raw string literals in which no key merely
\* ends in default.
C9_PlainRawTags ==
    Parsed =>
        \A fd \in DescribedFields :
            LET default == EntryValue(fd.source.tag, KeyDefault)
            IN  /\ default.found
                /\ MalformedDefault(fd.info.Type, default.val)
                /\ fd.source.tag.raw
                /\ \A k \in DOMAIN fd.source.tag.entries :
                      fd.source.tag.entries[k].key # <<"x">> \o KeyDefault
                => fd.info.DefaultValue = StringValue(default.val)

----------------------------------------------------------------------------
(* C11 *)

\* C11: parsing the file of TestParser_ParseFile gives one descriptor,
\* ServerConfig, with exactly the fields Host, Port, Debug, Tags in that
\* order (secret is left out), each with a registration method, the flag
\* names host, port, debug, tags and the default literals "localhost", 8080,
\* false and []string{"web", "api"}.
C11_EndToEnd ==
    call.fn = "ParseFile" /\ call.arg = ServerConfigFile =>
        /\ call.ret.err = NoErr
        /\ Len(call.ret.structs) = 1
        /\ call.ret.structs[1].Name = "ServerConfig"
        /\ LET fields == call.ret.structs[1].Fields
           IN  /\ [k \in DOMAIN fields |-> fields[k].Name]
                     = <<NHost, NPort, NDebug, NTags>>
               /\ [k \in DOMAIN fields |-> fields[k].FlagMethod]
                     = <<"StringVar", "IntVar", "BoolVar", "StringSliceVar">>
               /\ [k \in DOMAIN fields |-> fields[k].FlagName]
                     = <<<<"h", "o", "s", "t">>, <<"p", "o", "r", "t">>,
                         <<"d", "e", "b", "u", "g">>, <<"t", "a", "g", "s">>>>
               /\ [k \in DOMAIN fields |-> fields[k].DefaultValueCode]
                     = <<<<Quote, "l", "o", "c", "a", "l", "h", "o", "s", "t",
                         Quote>>,
                         Chars8080,
                         <<"f", "a", "l", "s", "e">>,
                         <<"[", "]", "s", "t", "r", "i", "n", "g", "{", Quote,
                         "w", "e", "b", Quote, ",", " ", Quote, "a", "p", "i",
                         Quote, "}">>>>

\* The test's file has been parsed and ServerConfig described.
C11_Witness ==
    /\ call.fn = "ParseFile"
    /\ call.arg = ServerConfigFile
    /\ Len(call.ret.structs) = 1
    /\ Len(call.ret.structs[1].Fields) = 4

----------------------------------------------------------------------------
(* C12 *)

\* The zero value of a supported type, as a literal.
ZeroLiteral(type) ==
    CASE type = "string" -> <<Quote, Quote>>
      [] type = "bool" -> <<"f", "a", "l", "s", "e">>
      [] type = "[]string" -> <<"[", "]", "s", "t", "r", "i", "n", "g", "{", "}">>
      [] type = "[]int" -> <<"[", "]", "i", "n", "t", "{", "}">>
      [] OTHER -> <<"0">>

\* The field has no tag entry keyed default.
NoDefaultEntry(field) == ~EntryValue(field.tag, KeyDefault).found

\* C12 (as claimed): a field of a supported type with no default tag entry
\* (no tag, or a tag without one) has the zero value of its type as
\* DefaultValueCode.
C12_ZeroValue ==
    \A fd \in DescribedFields :
        fd.info.Type \in DOMAIN SupportedTypes /\ NoDefaultEntry(fd.source) =>
            fd.info.DefaultValueCode = ZeroLiteral(fd.info.Type)

\* The same for fields whose tag does not hold the text default:" anywhere.
C12_NoDefaultText ==
    \A fd \in DescribedFields :
        (/\ fd.info.Type \in DOMAIN SupportedTypes
         /\ fd.source.tag.written =>
               ~Contains(TagText(fd.source.tag.entries), KeyDefault \o <<":", Quote>>))
        => fd.info.DefaultValueCode = ZeroLiteral(fd.info.Type)

----------------------------------------------------------------------------
(* C13 *)

\* Digits, at least one.
IsDigits(s) == s # <<>> /\ \A i \in DOMAIN s : IsDigit(s[i])

\* An integer literal, with or without a sign.
IsIntLiteral(s) ==
    IsDigits(IF s # <<>> /\ s[1] \in {"+", "-"} THEN Tail(s) ELSE s)

\* A decimal literal: an integer literal, or one with a fraction.
IsNumberLiteral(s) ==
    \/ IsIntLiteral(s)
    \/ /\ IndexFrom(s, ".", 1) # 0
       /\ IsIntLiteral(SubSeq(s, 1, IndexFrom(s, ".", 1) - 1))
       /\ IsDigits(SubSeq(s, IndexFrom(s, ".", 1) + 1, Len(s)))

\* A number, alone or multiplied by a unit constant of package time.
IsDurationLiteral(s) ==
    \/ IsIntLiteral(s)
    \/ \E unit \in {<<"t", "i", "m", "e", ".", "S", "e", "c", "o", "n", "d">>, <<"t", "i", "m", "e", ".", "M", "i", "n", "u", "t", "e">>} :
          /\ TrimSuffix(s, <<"*">> \o unit) # s
          /\ IsIntLiteral(TrimSuffix(s, <<"*">> \o unit))

\* A string literal: quotes around a text that holds neither a quote nor a
\* backslash.
IsStringLiteral(s) ==
    /\ Len(s) >= 2
    /\ s[1] = Quote
    /\ s[Len(s)] = Quote
    /\ \A i \in 2..Len(s) - 1 : s[i] \notin {Quote, Backslash}

\* A composite literal of the slice type named `type` whose elements, if any,
\* are separated by ", " and satisfy IsElement.
IsSliceLiteral(s, type, IsElement(_)) ==
    /\ HasPrefix(s, type \o <<"{">>)
    /\ s[Len(s)] = "}"
    /\ LET inner == SubSeq(s, Len(type) + 2, Len(s) - 1)
           items == Split(inner, ",")
       IN  inner = <<>> \/
           \A k \in DOMAIN items :
               IsElement(IF k = 1 THEN items[k] ELSE TrimPrefix(items[k], <<" ">>))

IsLiteralOf(type, code) ==
    CASE type = "string" -> IsStringLiteral(code)
      [] type = "bool" -> code \in {<<"t", "r", "u", "e">>, <<"f", "a", "l", "s", "e">>}
      [] type = "[]string" -> IsSliceLiteral(code, <<"[", "]", "s", "t", "r", "i", "n", "g">>, IsStringLiteral)
      [] type = "[]int" -> IsSliceLiteral(code, <<"[", "]", "i", "n", "t">>, IsIntLiteral)
      [] type = "time.Duration" -> IsDurationLiteral(code)
      [] type \in {"float32", "float64"} -> IsNumberLiteral(code)
      [] OTHER -> IsIntLiteral(code)

\* C13 (as claimed): every field with a registration method has a
\* DefaultValueCode in the literal syntax of its type, whatever default its
\* tag carries.
C13_LiteralSyntax ==
    \A fd \in DescribedFields :
        fd.info.FlagMethod # "" => IsLiteralOf(fd.info.Type, fd.info.DefaultValueCode)

----------------------------------------------------------------------------
(* C14 *)

\* The unit constant of package time that a unit suffix stands for.
UnitConstant(suffix) ==
    CASE suffix = "s" -> <<"t", "i", "m", "e", ".", "S", "e", "c", "o", "n", "d">>
      [] suffix = "m" -> <<"t", "i", "m", "e", ".", "M", "i", "n", "u", "t", "e">>
      [] suffix = "h" -> <<"t", "i", "m", "e", ".", "H", "o", "u", "r">>

\* A time string: digits and one unit suffix.
IsTimeString(v) ==
    /\ Len(v) >= 2
    /\ v[Len(v)] \in {"s", "m", "h"}
    /\ IsDigits(SubSeq(v, 1, Len(v) - 1))

\* The expression the time string stands for: its number times the constant
\* of its unit.
DurationExpr(v) ==
    SubSeq(v, 1, Len(v) - 1) \o <<"*">> \o UnitConstant(v[Len(v)])

\* C14 (as claimed): a time.Duration field whose default is a time string
\* with a unit suffix has as DefaultValueCode the number multiplied by the
\* constant of that unit; "30s" gives 30*time.Second.
C14_DurationDefault ==
    \A fd \in DescribedFields :
        LET default == EntryValue(fd.source.tag, KeyDefault)
        IN  /\ fd.info.Type = "time.Duration"
            /\ default.found
            /\ IsTimeString(default.val)
            => fd.info.DefaultValueCode = DurationExpr(default.val)

\* The same for defaults in seconds, on tags written as raw string literals
\* in which no key merely ends in default.
C14_Seconds ==
    \A fd \in DescribedFields :
        LET default == EntryValue(fd.source.tag, KeyDefault)
        IN  /\ fd.info.Type = "time.Duration"
            /\ default.found
            /\ IsTimeString(default.val)
            /\ default.val[Len(default.val)] = "s"
            /\ fd.source.tag.raw
            /\ \A k \in DOMAIN fd.source.tag.entries :
                  fd.source.tag.entries[k].key # <<"x">> \o KeyDefault
            => fd.info.DefaultValueCode = DurationExpr(default.val)

----------------------------------------------------------------------------
(* C15 *)

\* C15: ParseFile is a function of the source alone: any two calls on the
\* same file, on fresh parsers or on a parser that parsed other files in
\* between, returned equal results (structs, fields, flag names, defaults,
\* literals and imports, in the same order).
C15_Determinism ==
    \A i, j \in DOMAIN done :
        done[i].arg = done[j].arg => done[i].ret = done[j].ret

\* A file with duration fields has been parsed a second time by a parser that
\* parsed another file in between.
C15_Witness ==
    /\ Len(done) = 3
    /\ Len(fileSet) = 3
    /\ done[1].arg = TimeoutFile
    /\ done[2].arg # TimeoutFile
    /\ done[3].arg = TimeoutFile
    /\ done[3].ret.structs[1].Imports = <<"time">>

----------------------------------------------------------------------------
(* C16 *)

\* C16: the Imports of a descriptor hold "time", once, exactly when a field of
\* its field list has type time.Duration, that is when an exported named field
\* of the struct is declared as time.Duration, and are empty otherwise; a
\* time.Duration on unexported or embedded fields alone adds nothing.
C16_ImportAggregation ==
    Parsed =>
        \A k \in DOMAIN call.ret.structs :
            LET s == call.ret.structs[k]
                source == SpecAt(call.arg, PlaceOf(call.arg, s)).type
            IN  /\ s.Imports =
                      IF \E i \in DOMAIN s.Fields : s.Fields[i].Type = "time.Duration"
                      THEN <<"time">> ELSE <<>>
                /\ s.Imports =
                      IF \E e \in Range(ExportedFields(source)) :
                            e.field.type = TimeDuration
                      THEN <<"time">> ELSE <<>>

\* A struct with two exported duration fields and an unexported one has been
\* described, with one import.
C16_Witness ==
    /\ Parsed
    /\ call.arg = AnnotatedStruct(<<PlainField(<<NSec, NPort>>, TimeDuration),
                                    PlainField(<<NAddr>>, TimeDuration)>>)
    /\ Len(call.ret.structs[1].Fields) = 2
    /\ call.ret.structs[1].Imports = <<"time">>

----------------------------------------------------------------------------
(* C17 *)

\* The documented method of each of the 13 supported types; "" for any
\* other type string.
DocumentedMethod(type) ==
    CASE type = "string" -> "StringVar"
      [] type = "int" -> "IntVar"
      [] type = "int32" -> "Int32Var"
      [] type = "int64" -> "Int64Var"
      [] type = "uint" -> "UintVar"
      [] type = "uint32" -> "Uint32Var"
      [] type = "uint64" -> "Uint64Var"
      [] type = "bool" -> "BoolVar"
      [] type = "float32" -> "Float32Var"
      [] type = "float64" -> "Float64Var"
      [] type = "[]string" -> "StringSliceVar"
      [] type = "[]int" -> "IntSliceVar"
      [] type = "time.Duration" -> "DurationVar"
      [] OTHER -> ""

\* C17: GetFlagMethod returns the documented method and true for each of the
\* 13 supported types, and "" and false for every other type string.
C17_FlagMethodTable ==
    call.fn = "GetFlagMethod" =>
        /\ call.ret.method = DocumentedMethod(call.arg)
        /\ call.ret.exists <=> DocumentedMethod(call.arg) # ""

\* GetFlagMethod has been asked for the list of integers.
C17_Witness ==
    /\ call.fn = "GetFlagMethod"
    /\ call.arg = "[]int"
    /\ call.ret = [method |-> "IntSliceVar", exists |-> TRUE]

----------------------------------------------------------------------------
(* C18 *)

\* The text of a comment: what stands after // or between /* and */, without
\* the space around it.
CommentText(c) ==
    TrimSpace(IF HasPrefix(c, <<"/", "/">>) THEN SubSeq(c, 3, Len(c))
              ELSE IF HasPrefix(c, <<"/", "*">>)
                   THEN TrimSuffix(SubSeq(c, 3, Len(c)), <<"*", "/">>)
                   ELSE c)

NotAnnotationLine(text) == ~HasPrefix(text, <<"+">>)

\* The lines of a doc block that are no annotations, in order.
DescriptionLines(doc) ==
    SelectSeq([k \in DOMAIN doc.list |-> CommentText(doc.list[k])], NotAnnotationLine)

\* The description the claim gives a field.
ClaimedDescription(field) ==
    LET fromDoc == IF field.doc.present
                   THEN Join(DescriptionLines(field.doc), " ") ELSE <<>>
    IN  IF fromDoc # <<>> THEN fromDoc
        ELSE IF field.comment.present THEN CommentText(field.comment.list[1])
        ELSE <<>>

\* C18 (as claimed): Description is the doc lines before the field, markers
\* stripped, lines beginning with + dropped, joined by one space; without a
\* doc block, or when it yields nothing, it is the text of the first trailing
\* comment, and it is empty when there is neither.
C18_Description ==
    \A fd \in DescribedFields :
        fd.info.Description = ClaimedDescription(fd.source)

\* The same for fields whose trailing comment, if any, is a line comment and
\* whose doc block does not begin with an empty line.
C18_LineComments ==
    \A fd \in DescribedFields :
        (/\ fd.source.comment.present =>
                HasPrefix(fd.source.comment.list[1], <<"/", "/">>)
         /\ fd.source.doc.present =>
                \A k \in DOMAIN DescriptionLines(fd.source.doc) :
                    DescriptionLines(fd.source.doc)[k] = <<>> =>
                        \E j \in 1..k - 1 : DescriptionLines(fd.source.doc)[j] # <<>>)
        => fd.info.Description = ClaimedDescription(fd.source)

----------------------------------------------------------------------------
(* C19 *)

\* A run that reached ParseFile, and the file it parsed.
RanParse == call.fn = "runFlagsGen" /\ done # <<>>

PlaceBefore(p, q) == p[1] < q[1] \/ (p[1] = q[1] /\ p[2] < q[2])

\* Places of a file in source declaration order.
RECURSIVE InSourceOrder(_)
InSourceOrder(places) ==
    IF places = {} THEN <<>>
    ELSE LET first == CHOOSE p \in places : \A q \in places \ {p} : PlaceBefore(p, q)
         IN  <<first>> \o InSourceOrder(places \ {first})

NamesAt(file, places) ==
    LET order == InSourceOrder(places)
    IN  [k \in DOMAIN order |-> SpecAt(file, order[k]).name]

DescriptorNames(structs) == [k \in DOMAIN structs |-> structs[k].Name]

\* Texts put one after the other with one empty line between two of them.
RECURSIVE SeparatedByBlankLines(_)
SeparatedByBlankLines(texts) ==
    IF texts = <<>> THEN <<>>
    ELSE IF Len(texts) = 1 THEN texts[1]
    ELSE texts[1] \o <<BlankLine>> \o SeparatedByBlankLines(Tail(texts))

\* The structs of a file that carry the marker in the documentation attached
\* to them.
AnnotatedStructs(file) == {p \in StructSpecs(file) : Annotated(file, p)}

\* The structs of a file whose whole declaration carries the marker.
SelectedStructs(file) ==
    {p \in StructSpecs(file) : DocHasMarker(file.decls[p[1]].doc)}

\* The written output is the texts of the descriptors, in their order, with
\* an empty line between two of them and nothing else.
OutputIsJoinedTexts ==
    written # <<>> =>
        LET structs == done[1].ret.structs
        IN  written[1].data =
                SeparatedByBlankLines([k \in DOMAIN structs |-> GenerateFlags(structs[k])])

\* C19 (as claimed): for a file with several annotated structs ParseFile
\* returns their descriptors in source declaration order, and the written
\* output is the text of each descriptor in that order, two consecutive texts
\* separated by an empty line, nothing before the first or after the last.
C19_OrderedOutput ==
    RanParse /\ done[1].arg.syntaxOK /\ AllFieldsResolve(done[1].arg)
             /\ Cardinality(AnnotatedStructs(done[1].arg)) >= 2 =>
        /\ done[1].ret.err = NoErr
        /\ DescriptorNames(done[1].ret.structs)
               = NamesAt(done[1].arg, AnnotatedStructs(done[1].arg))
        /\ OutputIsJoinedTexts

\* The same for the structs ParseFile selects (by the documentation of the
\* whole declaration), and the output of every run that writes.
C19_SelectedOrder ==
    RanParse /\ done[1].arg.syntaxOK /\ AllFieldsResolve(done[1].arg) =>
        /\ done[1].ret.err = NoErr
        /\ DescriptorNames(done[1].ret.structs)
               = NamesAt(done[1].arg, SelectedStructs(done[1].arg))
        /\ OutputIsJoinedTexts

\* A run that wrote the texts of two descriptors.
C19_TwoTextsWritten ==
    /\ RanParse
    /\ written # <<>>
    /\ Len(done[1].ret.structs) = 2
    /\ Cardinality({k \in DOMAIN written[1].data : written[1].data[k] = BlankLine}) = 1
    /\ written[1].data[1] = FuncLine(done[1].ret.structs[1])
    /\ written[1].data[Len(written[1].data)] = EndLine(done[1].ret.structs[2])

----------------------------------------------------------------------------
(* C20 *)

Ran == call.fn = "runFlagsGen"

\* The path is empty, leads out of its directory, or cannot be made
\* absolute.
InvalidPath(path, wd) == validateFilePath(path, wd).err # NoErr

EndsInDotGo(path) ==
    Len(path) >= 3 /\ ToLower(SubSeq(path, Len(path) - 2, Len(path))) = SuffixGo

\* The reasons for which a run must end in an error, read from its flags,
\* its environment and what ParseFile returned.
ErrorCauses ==
    {c \in {"invalid input path", "invalid output path", "missing file", "oversized file",
            "non-.go input", "parse error", "no annotated struct", "generation error"} :
        CASE c = "invalid input path" -> InvalidPath(call.arg.inputFile, call.arg.inWd)
          [] c = "invalid output path" ->
                 call.arg.outputFile # <<>>
                 /\ InvalidPath(call.arg.outputFile, call.arg.outWd)
          [] c = "missing file" -> call.arg.stat.kind # "file"
          [] c = "oversized file" -> call.arg.stat.size > 10 * 1024 * 1024
          [] c = "non-.go input" -> ~EndsInDotGo(call.arg.inputFile)
          [] c = "parse error" -> done # <<>> /\ done[1].ret.err # NoErr
          [] c = "no annotated struct" ->
                 done # <<>> /\ done[1].ret.err = NoErr /\ done[1].ret.structs = <<>>
          [] c = "generation error" ->
                 done # <<>> /\ call.arg.failAt \in DOMAIN done[1].ret.structs}

\* The calls of a run that wrote: ParseFile, then one GenerateFlags for each
\* descriptor, then the write.
CallsBeforeWrite(steps, n) ==
    \E k \in DOMAIN steps :
        /\ steps[k] = "ParseFile"
        /\ Len(steps) = k + n + 1
        /\ \A j \in k + 1..k + n : steps[j] = "GenerateFlags"
        /\ steps[Len(steps)] = "WriteFile"

\* C20: the output file is written only after ParseFile succeeded with at
\* least one descriptor and generation succeeded for every descriptor; a run
\* with an invalid path, a missing or oversized file, an input that is no .go
\* file, a parse error, no annotated struct or a generation error writes
\* nothing and returns an error, and the process exits with a status that is
\* not zero.
C20_NoPartialOutput ==
    Ran =>
        /\ written # <<>> =>
               /\ ErrorCauses = {}
               /\ done # <<>>
               /\ done[1].ret.err = NoErr
               /\ Len(done[1].ret.structs) >= 1
               /\ CallsBeforeWrite(call.ret.steps, Len(done[1].ret.structs))
               /\ Len(written) = 1
        /\ ErrorCauses # {} =>
               /\ written = <<>>
               /\ call.ret.err # NoErr
               /\ call.exit # 0
        /\ call.ret.err # NoErr => call.exit # 0

\* A run whose second struct of two fails to generate: nothing is written.
C20_Witness ==
    /\ Ran
    /\ done # <<>>
    /\ Len(done[1].ret.structs) = 2
    /\ call.arg.failAt = 2
    /\ ErrorCauses = {"generation error"}
    /\ written = <<>>
    /\ call.exit = 1

----------------------------------------------------------------------------
(* C21 *)

\* The type string is a key of the documented table of supported types.
InTable(type) == DocumentedMethod(type) # ""

\* C21: in every field descriptor FlagMethod is non-empty if and only if Type
\* is a key of the supported-type table, and DefaultValueCode is non-empty
\* only then; an exported field whose type resolves to a name outside the
\* table causes no error and is kept at its declaration position with
\* FlagMethod and DefaultValueCode empty.
C21_FlagMethodGating ==
    Parsed =>
        /\ \A k \in DOMAIN call.ret.structs :
               \A i \in DOMAIN call.ret.structs[k].Fields :
                   LET f == call.ret.structs[k].Fields[i]
                   IN  /\ f.FlagMethod # "" <=> InTable(f.Type)
                       /\ f.DefaultValueCode # <<>> => InTable(f.Type)
        /\ AllFieldsResolve(call.arg) =>
               /\ call.ret.err = NoErr
               /\ \A k \in DOMAIN call.ret.structs :
                      LET exported == ExportedFields(
                              SpecAt(call.arg, PlaceOf(call.arg, call.ret.structs[k])).type)
                          fields == call.ret.structs[k].Fields
                      IN  \A i \in DOMAIN exported :
                              ~InTable(parseType(exported[i].field.type).s) =>
                                  /\ i \in DOMAIN fields
                                  /\ fields[i].Name = exported[i].name
                                  /\ fields[i].Type = parseType(exported[i].field.type).s
                                  /\ fields[i].FlagMethod = ""
                                  /\ fields[i].DefaultValueCode = <<>>

\* A field of a user-defined type with a default, between two supported
\* fields, has been described.
C21_Witness ==
    /\ Parsed
    /\ call.ret.err = NoErr
    /\ Len(call.ret.structs) = 1
    /\ Len(call.ret.structs[1].Fields) = 3
    /\ call.ret.structs[1].Fields[2].Type = "Custom"
    /\ call.ret.structs[1].Fields[2].DefaultValue # NilValue
    /\ call.ret.structs[1].Fields[2].FlagMethod = ""
    /\ call.ret.structs[1].Fields[1].FlagMethod = "StringVar"
    /\ call.ret.structs[1].Fields[3].FlagMethod = "BoolVar"

----------------------------------------------------------------------------
(* C22 *)

\* The places <<d, s>> of the type specifications of a file.
TypeSpecs(file) ==
    {p \in (DOMAIN file.decls) \X (1..MaxSpecs + 1) :
        /\ file.decls[p[1]].kind = "GenDecl"
        /\ file.decls[p[1]].tok = "type"
        /\ p[2] \in DOMAIN file.decls[p[1]].specs}

\* An alias, a named non-struct type, an interface or a function type.
NotPlainStruct(spec) == spec.assign \/ spec.type.node # "StructType"

\* C22 (as claimed): a type declaration that is an alias, a named non-struct
\* type, an interface or a function type never gets a descriptor and never
\* causes an error, with or without the marker in its documentation.
C22_OnlyPlainStructs ==
    Parsed =>
        /\ \A p \in TypeSpecs(call.arg) :
               NotPlainStruct(SpecAt(call.arg, p)) =>
                   DescriptorsOf(call.ret, call.arg, p) = {}
        /\ (\A p \in TypeSpecs(call.arg) : NotPlainStruct(SpecAt(call.arg, p))) =>
               call.ret.err = NoErr /\ call.ret.structs = <<>>

\* The same for the declarations whose type is not written as a struct.
C22_NonStructTypes ==
    Parsed =>
        /\ \A p \in TypeSpecs(call.arg) :
               SpecAt(call.arg, p).type.node # "StructType" =>
                   DescriptorsOf(call.ret, call.arg, p) = {}
        /\ (\A p \in TypeSpecs(call.arg) : SpecAt(call.arg, p).type.node # "StructType") =>
               call.ret.err = NoErr /\ call.ret.structs = <<>>

\* An annotated interface after an annotated struct has been passed over.
C22_InterfacePassedOver ==
    /\ Parsed
    /\ call.ret.err = NoErr
    /\ Len(call.ret.structs) = 1
    /\ Len(call.arg.decls) = 2
    /\ call.arg.decls[2].kind = "GenDecl"
    /\ DocHasMarker(call.arg.decls[2].doc)
    /\ call.arg.decls[2].specs[1].type.node = "InterfaceType"

----------------------------------------------------------------------------
(* C23 *)

\* The tag of the field holds the text key:" somewhere.
HoldsKeyText(field, key) ==
    field.tag.written /\ Contains(TagText(field.tag.entries), key \o <<":", Quote>>)

\* C23 (as claimed): a field whose tag has no entry keyed exactly json has an
\* empty external name, and a field whose tag has no entry keyed exactly
\* default has a nil DefaultValue; an entry whose key only ends in those
\* letters sets neither.
C23_ExactKeys ==
    \A fd \in DescribedFields :
        /\ ~EntryValue(fd.source.tag, KeyJSON).found => fd.info.JSONTag = <<>>
        /\ ~EntryValue(fd.source.tag, KeyDefault).found => fd.info.DefaultValue = NilValue

\* The same for the fields whose tag does not hold the text json:" or
\* default:" anywhere, inside a longer key or not.
C23_NoKeyText ==
    \A fd \in DescribedFields :
        /\ ~HoldsKeyText(fd.source, KeyJSON) => fd.info.JSONTag = <<>>
        /\ ~HoldsKeyText(fd.source, KeyDefault) => fd.info.DefaultValue = NilValue

\* A field with a tag that has neither entry has been described.
C23_OtherEntryOnly ==
    \E fd \in DescribedFields :
        /\ fd.source.tag.written
        /\ Len(fd.source.tag.entries) = 1
        /\ fd.source.tag.entries[1].key = <<"y","a","m","l">>
        /\ fd.info.JSONTag = <<>>
        /\ fd.info.DefaultValue = NilValue

----------------------------------------------------------------------------
(* C24 *)

Called(name) == \E k \in DOMAIN call.ret.steps : call.ret.steps[k] = name

\* The step at which ParseFile is called follows a path validation and the
\* os.Stat of the input.
ChecksPrecedeParse ==
    \A k \in DOMAIN call.ret.steps :
        call.ret.steps[k] = "ParseFile" =>
            /\ \E i \in 1..k - 1 : call.ret.steps[i] = "validateFilePath"
            /\ \E i \in 1..k - 1 : call.ret.steps[i] = "Stat"
            /\ \A i \in 1..k - 1 : call.ret.steps[i] # "GenerateFlags"

\* C24: a run on an input file larger than 10*1024*1024 bytes ends with an
\* error and calls neither ParseFile nor GenerateFlags; ParseFile is called
\* only after the path validation, the existence check, the size check and
\* the .go-extension check have passed.
C24_SizeCapBeforeCore ==
    Ran =>
        /\ call.arg.stat.kind = "file" /\ call.arg.stat.size > 10 * 1024 * 1024 =>
               /\ call.ret.err # NoErr
               /\ ~Called("ParseFile") /\ ~Called("GenerateFlags")
               /\ done = <<>> /\ written = <<>>
        /\ Called("ParseFile") \/ done # <<>> =>
               /\ ~InvalidPath(call.arg.inputFile, call.arg.inWd)
               /\ call.arg.stat.kind = "file"
               /\ call.arg.stat.size <= 10 * 1024 * 1024
               /\ EndsInDotGo(call.arg.inputFile)
               /\ ChecksPrecedeParse
        /\ Called("GenerateFlags") => Called("ParseFile")

\* A run on a file one byte over the cap whose path is valid and whose
\* output path is valid has ended with the size error.
C24_Witness ==
    /\ Ran
    /\ call.arg.stat = [kind |-> "file", size |-> 10 * 1024 * 1024 + 1]
    /\ ~InvalidPath(call.arg.inputFile, call.arg.inWd)
    /\ EndsInDotGo(call.arg.inputFile)
    /\ call.arg.outputFile = <<>>
    /\ call.ret.err = <<"input file is too large">>
    /\ done = <<>>

----------------------------------------------------------------------------
(* C25 *)

\* No two fields of the descriptor have the same identifier.
DistinctIdentifiers(structInfo) ==
    \A i, j \in DOMAIN structInfo.Fields :
        i # j => structInfo.Fields[i].Name # structInfo.Fields[j].Name

\* C25 (as claimed): within one descriptor the flag names of the fields are
\* pairwise distinct, whatever the field identifiers and json names.
C25_DistinctFlagNames ==
    Parsed =>
        \A k \in DOMAIN call.ret.structs :
            DistinctIdentifiers(call.ret.structs[k]) =>
                \A i, j \in DOMAIN call.ret.structs[k].Fields :
                    i # j => call.ret.structs[k].Fields[i].FlagName
                                # call.ret.structs[k].Fields[j].FlagName

\* Without json names, identifiers that differ in more than the case of
\* their letters get different flag names.
C25_UntaggedFields ==
    Parsed =>
        \A k \in DOMAIN call.ret.structs :
            \A i, j \in DOMAIN call.ret.structs[k].Fields :
                LET f == call.ret.structs[k].Fields[i]
                    g == call.ret.structs[k].Fields[j]
                IN  /\ i # j
                    /\ f.JSONTag = <<>> /\ g.JSONTag = <<>>
                    /\ ToLower(f.Name) # ToLower(g.Name)
                    => f.FlagName # g.FlagName

----------------------------------------------------------------------------
(* C26 *)

NoUpperCase(s) == \A i \in DOMAIN s : ~IsUpper(s[i])

\* C26: the result of toKebabCase holds no upper-case letter and is left as
\* it is by toKebabCase; every FlagName of every descriptor is non-empty and
\* holds no upper-case letter.
C26_Idempotent ==
    /\ call.fn = "toKebabCase" =>
           /\ NoUpperCase(call.ret)
           /\ toKebabCase(call.ret) = call.ret
           /\ Len(call.ret) >= Len(call.arg)
    /\ \A fd \in DescribedFields :
           /\ fd.info.FlagName # <<>>
           /\ NoUpperCase(fd.info.FlagName)
           /\ toKebabCase(fd.info.FlagName) = fd.info.FlagName

\* toKebabCase has put a hyphen into a name with capitals.
C26_Witness ==
    /\ call.fn = "toKebabCase"
    /\ call.arg = <<"a", "B", "A", "b">>
    /\ call.ret = <<"a", "-", "b", "-", "a", "b">>
    /\ toKebabCase(call.ret) = call.ret

\* A flag name has been made from a json name with capitals.
C26_FlagNameWitness ==
    \E fd \in DescribedFields :
        /\ fd.info.JSONTag = <<"l","i","s","t","e","n","P","o","r","t">>
        /\ fd.info.FlagName = <<"l","i","s","t","e","n","-","p","o","r","t">>

====
